---- MODULE Spec2Model ----
(***************************************************************************)
(* Prescription recommender of workout-backend: the trainer                *)
(* (train_prescription_model.py), the artifact files it writes, the        *)
(* inference service (prescription_service.py) with its module-level       *)
(* singleton, and the request handler that serves predictions.             *)
(*                                                                         *)
(* Text is a sequence of Unicode code points.  A BMI is the double the code *)
(* computes, rounding after every operation as IEEE 754 does, or NaN.      *)
(***************************************************************************)
EXTENDS Integers, Sequences, FiniteSets, TLC

\* ------------------------------------------------------------------ bounds

\* Training runs started in one behaviour.
MaxRuns == 1
\* PrescriptionService objects constructed in one behaviour.
MaxInst == 2
\* _load_model calls in one behaviour.
MaxLoads == 3
\* Requests served in one behaviour.
MaxCalls == 2
\* Requests the server has in flight at once.
NHandlers == 2
\* Reads of an artifact file that fail (I/O error, corrupt file).
MaxFaults == 1
\* Requests a server takes where its service is reloaded.
MaxServed == 3
\* Usable rows (plausible measurements with a taggable note) in the table.
MaxUsable == 15
\* Rows of each other kind (blank note, outlier, untaggable note) in the table.
MaxOther == 1

\* Probability levels a classifier may give a tag, besides 0: the multiples
\* of 1/MaxLevel up to 1.
MaxLevel == 10
\* Tags whose probability is set to one common level in a vector of
\* otherwise rising probabilities.
MaxTied == 2

\* Rows of a validation fold whose scores are binarised.
MaxFoldRows == 2

\* ------------------------------------------------------- program constants

MIN_HEIGHT == 120
MAX_HEIGHT == 220
MIN_WEIGHT == 30
MAX_WEIGHT == 250
MIN_BMI == 10
MAX_BMI == 60
N_SPLITS == 5
\* n_neighbors of every KNeighborsClassifier and kneighbors call.
N_NEIGHBORS == 7
\* The route's top_k: Query(3, ge=1, le=10).
TOP_K_MIN == 1
TOP_K_MAX == 10
\* The route's conf_thr=0.55, in counts of 1e-9.
CONF_THR == 550000000

\* The float NaN (an undefined BMI).
NaN == [nan |-> TRUE, neg |-> FALSE, m |-> <<>>, e |-> 0]
\* The bucket pd.cut gives a value outside every interval (NaN).
NaNBucket == -1

KEYWORDS ==
  <<
  [tag |-> "walking", kws |-> <<
        <<44151, 44592>>,
        <<47564, 48372>>,
        <<48736, 47476, 44172, 32, 44151, 44592>>,
        <<49549, 48372>>,
        <<54028, 50892, 50892, 53433>> >>],
  [tag |-> "jogging", kws |-> <<
        <<51312, 44613>>,
        <<47084, 45789>>,
        <<47088, 45789>>,
        <<47084, 45789, 47672, 49888>>,
        <<53944, 47112, 46300, 48128>>,
        <<44032, 48333, 44172, 32, 46832, 44592>> >>],
  [tag |-> "cycling", kws |-> <<
        <<49324, 51060, 53364>>,
        <<51088, 51204, 44144>>,
        <<49892, 45236, 51088, 51204, 44144>>,
        <<49828, 54588, 45789>> >>],
  [tag |-> "swimming", kws |-> <<
        <<49688, 50689>>,
        <<51088, 50976, 54805>>,
        <<54217, 50689>>,
        <<48176, 50689>> >>],
  [tag |-> "aerobic_interval", kws |-> <<
        <<51064, 53552, 48268>>,
        <<44256, 44053, 46020>>,
        <<105, 110, 116, 101, 114, 118, 97, 108>>,
        <<72, 73, 73, 84>>,
        <<49828, 54532, 47536, 53944>> >>],
  [tag |-> "strength_lower", kws |-> <<
        <<49828, 53244, 53944>>,
        <<47088, 51648>>,
        <<47112, 44536, 54532, 47112, 49828>>,
        <<47112, 44536, 52972>>,
        <<55193, 50416, 47084, 49828, 53944>>,
        <<45936, 46300, 47532, 54532, 53944>>,
        <<54616, 52404, 32, 44540, 47141>> >>],
  [tag |-> "strength_upper", kws |-> <<
        <<54392, 49884, 50629>>,
        <<48292, 52824, 54532, 47112, 49828>>,
        <<47019, 54400, 45796, 50868>>,
        <<54400, 50629>>,
        <<45924, 48296, 54532, 47112, 49828>>,
        <<49668, 45908, 54532, 47112, 49828>>,
        <<49345, 52404, 32, 44540, 47141>> >>],
  [tag |-> "strength_core", kws |-> <<
        <<54540, 47021, 53356>>,
        <<45936, 46300, 48260, 44536>>,
        <<48260, 46300, 46021>>,
        <<53356, 47088, 52824>>,
        <<48373, 44540>>,
        <<53076, 50612>> >>],
  [tag |-> "flexibility", kws |-> <<
        <<49828, 53944, 47112, 52845>>,
        <<50976, 50672, 49457>>,
        <<54660, 49828, 53944, 47553, 32, 49828, 53944, 47112, 52845>>,
        <<51204, 44404>>,
        <<54616, 52404, 32, 49828, 53944, 47112, 52845>>,
        <<49345, 52404, 32, 49828, 53944, 47112, 52845>> >>],
  [tag |-> "balance", kws |-> <<
        <<44512, 54805>>,
        <<48184, 47088, 49828>>,
        <<49828, 53597>>,
        <<51088, 49464, 32, 50504, 51221>>,
        <<49905, 44544, 32, 47112, 44536, 32, 49828, 53472, 49828>> >>]
  >>

TAGS == [i \in 1..Len(KEYWORDS) |-> KEYWORDS[i].tag]

\* ------------------------------------------------------------ text helpers

\* Closed ranges <<lo, hi>> of code points and membership in one of them.
InRanges(c, ranges) == \E r \in ranges : r[1] <= c /\ c <= r[2]

\* The code points str.isspace(), str.strip() and the pattern \s of re take
\* for whitespace (Unicode 14, the tables of the interpreter).
WhitespaceRanges ==
  {
   <<9, 13>>, <<28, 32>>, <<133, 133>>, <<160, 160>>, <<5760, 5760>>, <<8192, 8202>>,
   <<8232, 8233>>, <<8239, 8239>>, <<8287, 8287>>, <<12288, 12288>>
  }

IsSpace(c) == InRanges(c, WhitespaceRanges)

\* The simple lower-case mappings of the interpreter's tables: <<lo, hi,
\* step, delta>> sends lo, lo + step, ..., hi each to itself plus delta.
LowerRules ==
  {
   <<65, 90, 1, 32>>, <<192, 214, 1, 32>>, <<216, 222, 1, 32>>, <<256, 302, 2, 1>>,
   <<306, 310, 2, 1>>, <<313, 327, 2, 1>>, <<330, 374, 2, 1>>, <<376, 376, 1, 0 - 121>>,
   <<377, 381, 2, 1>>, <<385, 385, 1, 210>>, <<386, 388, 2, 1>>, <<390, 390, 1, 206>>,
   <<391, 391, 1, 1>>, <<393, 394, 1, 205>>, <<395, 395, 1, 1>>, <<398, 398, 1, 79>>,
   <<399, 399, 1, 202>>, <<400, 400, 1, 203>>, <<401, 401, 1, 1>>, <<403, 403, 1, 205>>,
   <<404, 404, 1, 207>>, <<406, 406, 1, 211>>, <<407, 407, 1, 209>>, <<408, 408, 1, 1>>,
   <<412, 412, 1, 211>>, <<413, 413, 1, 213>>, <<415, 415, 1, 214>>, <<416, 420, 2, 1>>,
   <<422, 422, 1, 218>>, <<423, 423, 1, 1>>, <<425, 425, 1, 218>>, <<428, 428, 1, 1>>,
   <<430, 430, 1, 218>>, <<431, 431, 1, 1>>, <<433, 434, 1, 217>>, <<435, 437, 2, 1>>,
   <<439, 439, 1, 219>>, <<440, 440, 1, 1>>, <<444, 444, 1, 1>>, <<452, 452, 1, 2>>,
   <<453, 453, 1, 1>>, <<455, 455, 1, 2>>, <<456, 456, 1, 1>>, <<458, 458, 1, 2>>,
   <<459, 475, 2, 1>>, <<478, 494, 2, 1>>, <<497, 497, 1, 2>>, <<498, 500, 2, 1>>,
   <<502, 502, 1, 0 - 97>>, <<503, 503, 1, 0 - 56>>, <<504, 542, 2, 1>>, <<544, 544, 1, 0 - 130>>,
   <<546, 562, 2, 1>>, <<570, 570, 1, 10795>>, <<571, 571, 1, 1>>, <<573, 573, 1, 0 - 163>>,
   <<574, 574, 1, 10792>>, <<577, 577, 1, 1>>, <<579, 579, 1, 0 - 195>>, <<580, 580, 1, 69>>,
   <<581, 581, 1, 71>>, <<582, 590, 2, 1>>, <<880, 882, 2, 1>>, <<886, 886, 1, 1>>,
   <<895, 895, 1, 116>>, <<902, 902, 1, 38>>, <<904, 906, 1, 37>>, <<908, 908, 1, 64>>,
   <<910, 911, 1, 63>>, <<913, 929, 1, 32>>, <<931, 939, 1, 32>>, <<975, 975, 1, 8>>,
   <<984, 1006, 2, 1>>, <<1012, 1012, 1, 0 - 60>>, <<1015, 1015, 1, 1>>, <<1017, 1017, 1, 0 - 7>>,
   <<1018, 1018, 1, 1>>, <<1021, 1023, 1, 0 - 130>>, <<1024, 1039, 1, 80>>, <<1040, 1071, 1, 32>>,
   <<1120, 1152, 2, 1>>, <<1162, 1214, 2, 1>>, <<1216, 1216, 1, 15>>, <<1217, 1229, 2, 1>>,
   <<1232, 1326, 2, 1>>, <<1329, 1366, 1, 48>>, <<4256, 4293, 1, 7264>>, <<4295, 4295, 1, 7264>>,
   <<4301, 4301, 1, 7264>>, <<5024, 5103, 1, 38864>>, <<5104, 5109, 1, 8>>, <<7312, 7354, 1, 0 - 3008>>,
   <<7357, 7359, 1, 0 - 3008>>, <<7680, 7828, 2, 1>>, <<7838, 7838, 1, 0 - 7615>>, <<7840, 7934, 2, 1>>,
   <<7944, 7951, 1, 0 - 8>>, <<7960, 7965, 1, 0 - 8>>, <<7976, 7983, 1, 0 - 8>>, <<7992, 7999, 1, 0 - 8>>,
   <<8008, 8013, 1, 0 - 8>>, <<8025, 8031, 2, 0 - 8>>, <<8040, 8047, 1, 0 - 8>>, <<8072, 8079, 1, 0 - 8>>,
   <<8088, 8095, 1, 0 - 8>>, <<8104, 8111, 1, 0 - 8>>, <<8120, 8121, 1, 0 - 8>>, <<8122, 8123, 1, 0 - 74>>,
   <<8124, 8124, 1, 0 - 9>>, <<8136, 8139, 1, 0 - 86>>, <<8140, 8140, 1, 0 - 9>>, <<8152, 8153, 1, 0 - 8>>,
   <<8154, 8155, 1, 0 - 100>>, <<8168, 8169, 1, 0 - 8>>, <<8170, 8171, 1, 0 - 112>>, <<8172, 8172, 1, 0 - 7>>,
   <<8184, 8185, 1, 0 - 128>>, <<8186, 8187, 1, 0 - 126>>, <<8188, 8188, 1, 0 - 9>>, <<8486, 8486, 1, 0 - 7517>>,
   <<8490, 8490, 1, 0 - 8383>>, <<8491, 8491, 1, 0 - 8262>>, <<8498, 8498, 1, 28>>, <<8544, 8559, 1, 16>>,
   <<8579, 8579, 1, 1>>, <<9398, 9423, 1, 26>>, <<11264, 11311, 1, 48>>, <<11360, 11360, 1, 1>>,
   <<11362, 11362, 1, 0 - 10743>>, <<11363, 11363, 1, 0 - 3814>>, <<11364, 11364, 1, 0 - 10727>>, <<11367, 11371, 2, 1>>,
   <<11373, 11373, 1, 0 - 10780>>, <<11374, 11374, 1, 0 - 10749>>, <<11375, 11375, 1, 0 - 10783>>, <<11376, 11376, 1, 0 - 10782>>,
   <<11378, 11378, 1, 1>>, <<11381, 11381, 1, 1>>, <<11390, 11391, 1, 0 - 10815>>, <<11392, 11490, 2, 1>>,
   <<11499, 11501, 2, 1>>, <<11506, 11506, 1, 1>>, <<42560, 42604, 2, 1>>, <<42624, 42650, 2, 1>>,
   <<42786, 42798, 2, 1>>, <<42802, 42862, 2, 1>>, <<42873, 42875, 2, 1>>, <<42877, 42877, 1, 0 - 35332>>,
   <<42878, 42886, 2, 1>>, <<42891, 42891, 1, 1>>, <<42893, 42893, 1, 0 - 42280>>, <<42896, 42898, 2, 1>>,
   <<42902, 42920, 2, 1>>, <<42922, 42922, 1, 0 - 42308>>, <<42923, 42923, 1, 0 - 42319>>, <<42924, 42924, 1, 0 - 42315>>,
   <<42925, 42925, 1, 0 - 42305>>, <<42926, 42926, 1, 0 - 42308>>, <<42928, 42928, 1, 0 - 42258>>, <<42929, 42929, 1, 0 - 42282>>,
   <<42930, 42930, 1, 0 - 42261>>, <<42931, 42931, 1, 928>>, <<42932, 42946, 2, 1>>, <<42948, 42948, 1, 0 - 48>>,
   <<42949, 42949, 1, 0 - 42307>>, <<42950, 42950, 1, 0 - 35384>>, <<42951, 42953, 2, 1>>, <<42960, 42960, 1, 1>>,
   <<42966, 42968, 2, 1>>, <<42997, 42997, 1, 1>>, <<65313, 65338, 1, 32>>, <<66560, 66599, 1, 40>>,
   <<66736, 66771, 1, 40>>, <<66928, 66938, 1, 39>>, <<66940, 66954, 1, 39>>, <<66956, 66962, 1, 39>>,
   <<66964, 66965, 1, 39>>, <<68736, 68786, 1, 64>>, <<71840, 71871, 1, 32>>, <<93760, 93791, 1, 32>>,
   <<125184, 125217, 1, 34>>
  }

LowerRule(c) ==
  { r \in LowerRules : r[1] <= c /\ c <= r[2] /\ (c - r[1]) % r[3] = 0 }

\* str.lower() on one code point by itself: the code points it becomes.
\* U+0130 is the one that becomes two.
Lower(c) ==
  IF c = 304 THEN <<105, 775>>
  ELSE IF LowerRule(c) = {} THEN <<c>>
  ELSE <<c + (CHOOSE r \in LowerRule(c) : TRUE)[4]>>

\* The code points with the property Cased.
CasedRanges ==
  {
   <<65, 90>>, <<97, 122>>, <<170, 170>>, <<181, 181>>, <<186, 186>>, <<192, 214>>,
   <<216, 246>>, <<248, 442>>, <<444, 447>>, <<452, 659>>, <<661, 696>>, <<704, 705>>,
   <<736, 740>>, <<837, 837>>, <<880, 883>>, <<886, 887>>, <<890, 893>>, <<895, 895>>,
   <<902, 902>>, <<904, 906>>, <<908, 908>>, <<910, 929>>, <<931, 1013>>, <<1015, 1153>>,
   <<1162, 1327>>, <<1329, 1366>>, <<1376, 1416>>, <<4256, 4293>>, <<4295, 4295>>, <<4301, 4301>>,
   <<4304, 4346>>, <<4349, 4351>>, <<5024, 5109>>, <<5112, 5117>>, <<7296, 7304>>, <<7312, 7354>>,
   <<7357, 7359>>, <<7424, 7615>>, <<7680, 7957>>, <<7960, 7965>>, <<7968, 8005>>, <<8008, 8013>>,
   <<8016, 8023>>, <<8025, 8025>>, <<8027, 8027>>, <<8029, 8029>>, <<8031, 8061>>, <<8064, 8116>>,
   <<8118, 8124>>, <<8126, 8126>>, <<8130, 8132>>, <<8134, 8140>>, <<8144, 8147>>, <<8150, 8155>>,
   <<8160, 8172>>, <<8178, 8180>>, <<8182, 8188>>, <<8305, 8305>>, <<8319, 8319>>, <<8336, 8348>>,
   <<8450, 8450>>, <<8455, 8455>>, <<8458, 8467>>, <<8469, 8469>>, <<8473, 8477>>, <<8484, 8484>>,
   <<8486, 8486>>, <<8488, 8488>>, <<8490, 8493>>, <<8495, 8500>>, <<8505, 8505>>, <<8508, 8511>>,
   <<8517, 8521>>, <<8526, 8526>>, <<8544, 8575>>, <<8579, 8580>>, <<9398, 9449>>, <<11264, 11492>>,
   <<11499, 11502>>, <<11506, 11507>>, <<11520, 11557>>, <<11559, 11559>>, <<11565, 11565>>, <<42560, 42605>>,
   <<42624, 42653>>, <<42786, 42887>>, <<42891, 42894>>, <<42896, 42954>>, <<42960, 42961>>, <<42963, 42963>>,
   <<42965, 42969>>, <<42997, 42998>>, <<43000, 43002>>, <<43824, 43866>>, <<43868, 43880>>, <<43888, 43967>>,
   <<64256, 64262>>, <<64275, 64279>>, <<65313, 65338>>, <<65345, 65370>>, <<66560, 66639>>, <<66736, 66771>>,
   <<66776, 66811>>, <<66928, 66938>>, <<66940, 66954>>, <<66956, 66962>>, <<66964, 66965>>, <<66967, 66977>>,
   <<66979, 66993>>, <<66995, 67001>>, <<67003, 67004>>, <<67456, 67456>>, <<67459, 67461>>, <<67463, 67504>>,
   <<67506, 67514>>, <<68736, 68786>>, <<68800, 68850>>, <<71840, 71903>>, <<93760, 93823>>, <<119808, 119892>>,
   <<119894, 119964>>, <<119966, 119967>>, <<119970, 119970>>, <<119973, 119974>>, <<119977, 119980>>, <<119982, 119993>>,
   <<119995, 119995>>, <<119997, 120003>>, <<120005, 120069>>, <<120071, 120074>>, <<120077, 120084>>, <<120086, 120092>>,
   <<120094, 120121>>, <<120123, 120126>>, <<120128, 120132>>, <<120134, 120134>>, <<120138, 120144>>, <<120146, 120485>>,
   <<120488, 120512>>, <<120514, 120538>>, <<120540, 120570>>, <<120572, 120596>>, <<120598, 120628>>, <<120630, 120654>>,
   <<120656, 120686>>, <<120688, 120712>>, <<120714, 120744>>, <<120746, 120770>>, <<120772, 120779>>, <<122624, 122633>>,
   <<122635, 122654>>, <<125184, 125251>>, <<127280, 127305>>, <<127312, 127337>>, <<127344, 127369>>
  }

\* The code points with the property Case_Ignorable.
CaseIgnorableRanges ==
  {
   <<39, 39>>, <<46, 46>>, <<58, 58>>, <<94, 94>>, <<96, 96>>, <<168, 168>>,
   <<173, 173>>, <<175, 175>>, <<180, 180>>, <<183, 184>>, <<688, 879>>, <<884, 885>>,
   <<890, 890>>, <<900, 901>>, <<903, 903>>, <<1155, 1161>>, <<1369, 1369>>, <<1375, 1375>>,
   <<1425, 1469>>, <<1471, 1471>>, <<1473, 1474>>, <<1476, 1477>>, <<1479, 1479>>, <<1524, 1524>>,
   <<1536, 1541>>, <<1552, 1562>>, <<1564, 1564>>, <<1600, 1600>>, <<1611, 1631>>, <<1648, 1648>>,
   <<1750, 1757>>, <<1759, 1768>>, <<1770, 1773>>, <<1807, 1807>>, <<1809, 1809>>, <<1840, 1866>>,
   <<1958, 1968>>, <<2027, 2037>>, <<2042, 2042>>, <<2045, 2045>>, <<2070, 2093>>, <<2137, 2139>>,
   <<2184, 2184>>, <<2192, 2193>>, <<2200, 2207>>, <<2249, 2306>>, <<2362, 2362>>, <<2364, 2364>>,
   <<2369, 2376>>, <<2381, 2381>>, <<2385, 2391>>, <<2402, 2403>>, <<2417, 2417>>, <<2433, 2433>>,
   <<2492, 2492>>, <<2497, 2500>>, <<2509, 2509>>, <<2530, 2531>>, <<2558, 2558>>, <<2561, 2562>>,
   <<2620, 2620>>, <<2625, 2626>>, <<2631, 2632>>, <<2635, 2637>>, <<2641, 2641>>, <<2672, 2673>>,
   <<2677, 2677>>, <<2689, 2690>>, <<2748, 2748>>, <<2753, 2757>>, <<2759, 2760>>, <<2765, 2765>>,
   <<2786, 2787>>, <<2810, 2815>>, <<2817, 2817>>, <<2876, 2876>>, <<2879, 2879>>, <<2881, 2884>>,
   <<2893, 2893>>, <<2901, 2902>>, <<2914, 2915>>, <<2946, 2946>>, <<3008, 3008>>, <<3021, 3021>>,
   <<3072, 3072>>, <<3076, 3076>>, <<3132, 3132>>, <<3134, 3136>>, <<3142, 3144>>, <<3146, 3149>>,
   <<3157, 3158>>, <<3170, 3171>>, <<3201, 3201>>, <<3260, 3260>>, <<3263, 3263>>, <<3270, 3270>>,
   <<3276, 3277>>, <<3298, 3299>>, <<3328, 3329>>, <<3387, 3388>>, <<3393, 3396>>, <<3405, 3405>>,
   <<3426, 3427>>, <<3457, 3457>>, <<3530, 3530>>, <<3538, 3540>>, <<3542, 3542>>, <<3633, 3633>>,
   <<3636, 3642>>, <<3654, 3662>>, <<3761, 3761>>, <<3764, 3772>>, <<3782, 3782>>, <<3784, 3789>>,
   <<3864, 3865>>, <<3893, 3893>>, <<3895, 3895>>, <<3897, 3897>>, <<3953, 3966>>, <<3968, 3972>>,
   <<3974, 3975>>, <<3981, 3991>>, <<3993, 4028>>, <<4038, 4038>>, <<4141, 4144>>, <<4146, 4151>>,
   <<4153, 4154>>, <<4157, 4158>>, <<4184, 4185>>, <<4190, 4192>>, <<4209, 4212>>, <<4226, 4226>>,
   <<4229, 4230>>, <<4237, 4237>>, <<4253, 4253>>, <<4348, 4348>>, <<4957, 4959>>, <<5906, 5908>>,
   <<5938, 5939>>, <<5970, 5971>>, <<6002, 6003>>, <<6068, 6069>>, <<6071, 6077>>, <<6086, 6086>>,
   <<6089, 6099>>, <<6103, 6103>>, <<6109, 6109>>, <<6155, 6159>>, <<6211, 6211>>, <<6277, 6278>>,
   <<6313, 6313>>, <<6432, 6434>>, <<6439, 6440>>, <<6450, 6450>>, <<6457, 6459>>, <<6679, 6680>>,
   <<6683, 6683>>, <<6742, 6742>>, <<6744, 6750>>, <<6752, 6752>>, <<6754, 6754>>, <<6757, 6764>>,
   <<6771, 6780>>, <<6783, 6783>>, <<6823, 6823>>, <<6832, 6862>>, <<6912, 6915>>, <<6964, 6964>>,
   <<6966, 6970>>, <<6972, 6972>>, <<6978, 6978>>, <<7019, 7027>>, <<7040, 7041>>, <<7074, 7077>>,
   <<7080, 7081>>, <<7083, 7085>>, <<7142, 7142>>, <<7144, 7145>>, <<7149, 7149>>, <<7151, 7153>>,
   <<7212, 7219>>, <<7222, 7223>>, <<7288, 7293>>, <<7376, 7378>>, <<7380, 7392>>, <<7394, 7400>>,
   <<7405, 7405>>, <<7412, 7412>>, <<7416, 7417>>, <<7468, 7530>>, <<7544, 7544>>, <<7579, 7679>>,
   <<8125, 8125>>, <<8127, 8129>>, <<8141, 8143>>, <<8157, 8159>>, <<8173, 8175>>, <<8189, 8190>>,
   <<8203, 8207>>, <<8216, 8217>>, <<8228, 8228>>, <<8231, 8231>>, <<8234, 8238>>, <<8288, 8292>>,
   <<8294, 8303>>, <<8305, 8305>>, <<8319, 8319>>, <<8336, 8348>>, <<8400, 8432>>, <<11388, 11389>>,
   <<11503, 11505>>, <<11631, 11631>>, <<11647, 11647>>, <<11744, 11775>>, <<11823, 11823>>, <<12293, 12293>>,
   <<12330, 12333>>, <<12337, 12341>>, <<12347, 12347>>, <<12441, 12446>>, <<12540, 12542>>, <<40981, 40981>>,
   <<42232, 42237>>, <<42508, 42508>>, <<42607, 42610>>, <<42612, 42621>>, <<42623, 42623>>, <<42652, 42655>>,
   <<42736, 42737>>, <<42752, 42785>>, <<42864, 42864>>, <<42888, 42890>>, <<42994, 42996>>, <<43000, 43001>>,
   <<43010, 43010>>, <<43014, 43014>>, <<43019, 43019>>, <<43045, 43046>>, <<43052, 43052>>, <<43204, 43205>>,
   <<43232, 43249>>, <<43263, 43263>>, <<43302, 43309>>, <<43335, 43345>>, <<43392, 43394>>, <<43443, 43443>>,
   <<43446, 43449>>, <<43452, 43453>>, <<43471, 43471>>, <<43493, 43494>>, <<43561, 43566>>, <<43569, 43570>>,
   <<43573, 43574>>, <<43587, 43587>>, <<43596, 43596>>, <<43632, 43632>>, <<43644, 43644>>, <<43696, 43696>>,
   <<43698, 43700>>, <<43703, 43704>>, <<43710, 43711>>, <<43713, 43713>>, <<43741, 43741>>, <<43756, 43757>>,
   <<43763, 43764>>, <<43766, 43766>>, <<43867, 43871>>, <<43881, 43883>>, <<44005, 44005>>, <<44008, 44008>>,
   <<44013, 44013>>, <<64286, 64286>>, <<64434, 64450>>, <<65024, 65039>>, <<65043, 65043>>, <<65056, 65071>>,
   <<65106, 65106>>, <<65109, 65109>>, <<65279, 65279>>, <<65287, 65287>>, <<65294, 65294>>, <<65306, 65306>>,
   <<65342, 65342>>, <<65344, 65344>>, <<65392, 65392>>, <<65438, 65439>>, <<65507, 65507>>, <<65529, 65531>>,
   <<66045, 66045>>, <<66272, 66272>>, <<66422, 66426>>, <<67456, 67461>>, <<67463, 67504>>, <<67506, 67514>>,
   <<68097, 68099>>, <<68101, 68102>>, <<68108, 68111>>, <<68152, 68154>>, <<68159, 68159>>, <<68325, 68326>>,
   <<68900, 68903>>, <<69291, 69292>>, <<69446, 69456>>, <<69506, 69509>>, <<69633, 69633>>, <<69688, 69702>>,
   <<69744, 69744>>, <<69747, 69748>>, <<69759, 69761>>, <<69811, 69814>>, <<69817, 69818>>, <<69821, 69821>>,
   <<69826, 69826>>, <<69837, 69837>>, <<69888, 69890>>, <<69927, 69931>>, <<69933, 69940>>, <<70003, 70003>>,
   <<70016, 70017>>, <<70070, 70078>>, <<70089, 70092>>, <<70095, 70095>>, <<70191, 70193>>, <<70196, 70196>>,
   <<70198, 70199>>, <<70206, 70206>>, <<70367, 70367>>, <<70371, 70378>>, <<70400, 70401>>, <<70459, 70460>>,
   <<70464, 70464>>, <<70502, 70508>>, <<70512, 70516>>, <<70712, 70719>>, <<70722, 70724>>, <<70726, 70726>>,
   <<70750, 70750>>, <<70835, 70840>>, <<70842, 70842>>, <<70847, 70848>>, <<70850, 70851>>, <<71090, 71093>>,
   <<71100, 71101>>, <<71103, 71104>>, <<71132, 71133>>, <<71219, 71226>>, <<71229, 71229>>, <<71231, 71232>>,
   <<71339, 71339>>, <<71341, 71341>>, <<71344, 71349>>, <<71351, 71351>>, <<71453, 71455>>, <<71458, 71461>>,
   <<71463, 71467>>, <<71727, 71735>>, <<71737, 71738>>, <<71995, 71996>>, <<71998, 71998>>, <<72003, 72003>>,
   <<72148, 72151>>, <<72154, 72155>>, <<72160, 72160>>, <<72193, 72202>>, <<72243, 72248>>, <<72251, 72254>>,
   <<72263, 72263>>, <<72273, 72278>>, <<72281, 72283>>, <<72330, 72342>>, <<72344, 72345>>, <<72752, 72758>>,
   <<72760, 72765>>, <<72767, 72767>>, <<72850, 72871>>, <<72874, 72880>>, <<72882, 72883>>, <<72885, 72886>>,
   <<73009, 73014>>, <<73018, 73018>>, <<73020, 73021>>, <<73023, 73029>>, <<73031, 73031>>, <<73104, 73105>>,
   <<73109, 73109>>, <<73111, 73111>>, <<73459, 73460>>, <<78896, 78904>>, <<92912, 92916>>, <<92976, 92982>>,
   <<92992, 92995>>, <<94031, 94031>>, <<94095, 94111>>, <<94176, 94177>>, <<94179, 94180>>, <<110576, 110579>>,
   <<110581, 110587>>, <<110589, 110590>>, <<113821, 113822>>, <<113824, 113827>>, <<118528, 118573>>, <<118576, 118598>>,
   <<119143, 119145>>, <<119155, 119170>>, <<119173, 119179>>, <<119210, 119213>>, <<119362, 119364>>, <<121344, 121398>>,
   <<121403, 121452>>, <<121461, 121461>>, <<121476, 121476>>, <<121499, 121503>>, <<121505, 121519>>, <<122880, 122886>>,
   <<122888, 122904>>, <<122907, 122913>>, <<122915, 122916>>, <<122918, 122922>>, <<123184, 123197>>, <<123566, 123566>>,
   <<123628, 123631>>, <<125136, 125142>>, <<125252, 125259>>, <<127995, 127999>>, <<917505, 917505>>, <<917536, 917631>>,
   <<917760, 917999>>
  }

\* Capital sigma at place i of s is final when the nearest code point before
\* it that is not case-ignorable is cased and the nearest one after it that
\* is not case-ignorable, if there is one, is not cased.
FinalSigma(s, i) ==
  LET before == { j \in 1..(i - 1) : ~InRanges(s[j], CaseIgnorableRanges) }
      after == { j \in (i + 1)..Len(s) : ~InRanges(s[j], CaseIgnorableRanges) }
  IN /\ before # {}
     /\ InRanges(s[CHOOSE j \in before : \A k \in before : k <= j], CasedRanges)
     /\ \/ after = {}
        \/ ~InRanges(s[CHOOSE j \in after : \A k \in after : j <= k], CasedRanges)

\* str.lower(): every code point lowered in place, a capital sigma to the
\* final or the medial small sigma by its neighbours.
RECURSIVE LowerFrom(_, _)
LowerFrom(s, i) ==
  IF i > Len(s) THEN <<>>
  ELSE (IF s[i] = 931 THEN <<IF FinalSigma(s, i) THEN 962 ELSE 963>>
        ELSE Lower(s[i])) \o LowerFrom(s, i + 1)

str_lower(s) == LowerFrom(s, 1)

RECURSIVE LStrip(_)
LStrip(s) ==
  IF s # <<>> /\ IsSpace(Head(s)) THEN LStrip(Tail(s)) ELSE s

RECURSIVE RStrip(_)
RStrip(s) ==
  IF s # <<>> /\ IsSpace(s[Len(s)]) THEN RStrip(SubSeq(s, 1, Len(s) - 1)) ELSE s

Strip(s) == RStrip(LStrip(s))

\* re.sub(r"\s+", " ", s): every maximal run of whitespace becomes one space.
RECURSIVE CollapseSpaces(_)
CollapseSpaces(s) ==
  IF s = <<>> THEN <<>>
  ELSE IF IsSpace(Head(s))
       THEN <<32>> \o CollapseSpaces(LStrip(s))
       ELSE <<Head(s)>> \o CollapseSpaces(Tail(s))

\* Lines 72-73: lower, strip, then the runs of whitespace.
normalize_text(s) == CollapseSpaces(Strip(str_lower(s)))

\* Python's `kw in note`: kw occurs as a contiguous substring.
Contains(note, kw) ==
  \E i \in 0..(Len(note) - Len(kw)) :
     \A j \in 1..Len(kw) : note[i + j] = kw[j]

\* extract_tags with its `break` leaving both loops: the first tag only.
extract_first_tag(note_norm) ==
  LET hit == { u \in 1..Len(KEYWORDS) :
                 \E k \in 1..Len(KEYWORDS[u].kws) :
                   Contains(note_norm, KEYWORDS[u].kws[k]) }
  IN { KEYWORDS[u].tag : u \in { v \in hit : \A w \in hit : v <= w } }

extract_tags(note_norm) ==
  { KEYWORDS[t].tag : t \in { u \in 1..Len(KEYWORDS) :
        \E k \in 1..Len(KEYWORDS[u].kws) : Contains(note_norm, KEYWORDS[u].kws[k]) } }

\* Lines 92-97: one column per tag of the vocabulary, in its order.
to_multihot(tag_list, all_tags) ==
  [i \in 1..Len(all_tags) |-> IF all_tags[i] \in tag_list THEN 1 ELSE 0]

\* ------------------------------------------------------- float arithmetic

\* A natural number of any size: its digits in base 2^15, lowest first, the
\* highest one not zero; zero is the empty sequence.
Base == 2^15

RECURSIVE BigOf(_)
BigOf(n) == IF n = 0 THEN <<>> ELSE <<n % Base>> \o BigOf(n \div Base)

RECURSIVE Trim(_)
Trim(a) ==
  IF a # <<>> /\ a[Len(a)] = 0 THEN Trim(SubSeq(a, 1, Len(a) - 1)) ELSE a

RECURSIVE BigCmpFrom(_, _, _)
BigCmpFrom(a, b, i) ==
  IF i = 0 THEN 0
  ELSE IF a[i] < b[i] THEN 0 - 1
  ELSE IF a[i] > b[i] THEN 1
  ELSE BigCmpFrom(a, b, i - 1)

\* -1, 0 or 1 as a is less than, equal to or greater than b.
BigCmp(a, b) ==
  IF Len(a) < Len(b) THEN 0 - 1
  ELSE IF Len(a) > Len(b) THEN 1
  ELSE BigCmpFrom(a, b, Len(a))

\* a + b + c for a carry c of 0 or 1.
RECURSIVE AddC(_, _, _)
AddC(a, b, c) ==
  IF a = <<>> /\ b = <<>> THEN (IF c = 0 THEN <<>> ELSE <<c>>)
  ELSE LET x == (IF a = <<>> THEN 0 ELSE Head(a))
                + (IF b = <<>> THEN 0 ELSE Head(b)) + c
       IN <<x % Base>> \o AddC(IF a = <<>> THEN <<>> ELSE Tail(a),
                              IF b = <<>> THEN <<>> ELSE Tail(b),
                              x \div Base)

BigAdd(a, b) == AddC(a, b, 0)

\* a - b - c for a >= b + c, high zero digits kept.
RECURSIVE SubB(_, _, _)
SubB(a, b, c) ==
  IF a = <<>> THEN <<>>
  ELSE LET x == Head(a) - (IF b = <<>> THEN 0 ELSE Head(b)) - c
       IN <<(x + Base) % Base>>
            \o SubB(Tail(a), IF b = <<>> THEN <<>> ELSE Tail(b),
                    IF x < 0 THEN 1 ELSE 0)

BigSub(a, b) == Trim(SubB(a, b, 0))

\* a * k + c for k and c below Base.
RECURSIVE MulC(_, _, _)
MulC(a, k, c) ==
  IF a = <<>> THEN (IF c = 0 THEN <<>> ELSE <<c>>)
  ELSE LET x == Head(a) * k + c
       IN <<x % Base>> \o MulC(Tail(a), k, x \div Base)

BigMulSmall(a, k) == IF k = 0 THEN <<>> ELSE MulC(a, k, 0)

RECURSIVE BigMul(_, _)
BigMul(a, b) ==
  IF b = <<>> THEN <<>>
  ELSE LET rest == BigMul(a, Tail(b))
       IN BigAdd(BigMulSmall(a, Head(b)),
                 IF rest = <<>> THEN <<>> ELSE <<0>> \o rest)

\* a * 2^s.
BigShl(a, s) ==
  IF a = <<>> THEN <<>>
  ELSE [i \in 1..(s \div 15) |-> 0] \o BigMulSmall(a, 2^(s % 15))

RECURSIVE SmallBitLen(_)
SmallBitLen(n) == IF n = 0 THEN 0 ELSE 1 + SmallBitLen(n \div 2)

\* The number of binary digits of a.
BitLen(a) ==
  IF a = <<>> THEN 0 ELSE 15 * (Len(a) - 1) + SmallBitLen(a[Len(a)])

\* Binary digit i of a, the lowest being digit 0.
BigBit(a, i) == (a[(i \div 15) + 1] \div 2^(i % 15)) % 2

\* a div 2^k.
BigShr(a, k) ==
  LET u == k \div 15
      v == k % 15
      n == Len(a) - u
  IN IF n <= 0 THEN <<>>
     ELSE Trim([i \in 1..n |->
                  (a[i + u] \div 2^v)
                  + (IF i + u < Len(a) THEN (a[i + u + 1] % 2^v) * 2^(15 - v)
                     ELSE 0)])

\* Long division, one binary digit of n at a time from digit hi - 1 down to
\* digit 0: qr holds the quotient and the remainder so far.
RECURSIVE DivBits(_, _, _, _)
DivBits(n, d, hi, qr) ==
  IF hi = 0 THEN qr
  ELSE LET r2 == AddC(BigMulSmall(qr[2], 2), <<>>, BigBit(n, hi - 1))
           q2 == BigMulSmall(qr[1], 2)
       IN IF BigCmp(r2, d) >= 0
          THEN DivBits(n, d, hi - 1, <<AddC(q2, <<>>, 1), BigSub(r2, d)>>)
          ELSE DivBits(n, d, hi - 1, <<q2, r2>>)

\* <<n div d, n mod d>> for d > 0: the digits of n above the first place
\* where the quotient can have a digit are the first remainder.
BigDivMod(n, d) ==
  LET i == IF BitLen(n) >= BitLen(d) THEN BitLen(n) - BitLen(d) + 1 ELSE 0
  IN DivBits(n, d, i, <<<<>>, BigShr(n, i)>>)

\* The double nearest to n / d (n, d > 0), ties to the even significand, as
\* significand m and exponent e of m * 2^e: the quotient is scaled by 2^k
\* into [2^52, 2^53), cut to an integer and rounded on the remainder.
RoundQuot(n, d) ==
  LET k0 == 53 - (BitLen(n) - BitLen(d))
      num(j) == IF j >= 0 THEN BigShl(n, j) ELSE n
      den(j) == IF j >= 0 THEN d ELSE BigShl(d, 0 - j)
      k == IF BigCmp(num(k0), BigShl(den(k0), 53)) >= 0 THEN k0 - 1 ELSE k0
      qr == BigDivMod(num(k), den(k))
      twice == BigCmp(BigMulSmall(qr[2], 2), den(k))
      up == twice > 0 \/ (twice = 0 /\ qr[1][1] % 2 = 1)
  IN [m |-> IF up THEN BigAdd(qr[1], <<1>>) ELSE qr[1], e |-> 0 - k]

\* A double is NaN or (-1)^neg * m * 2^e; FloatOf is float(n) for an integer
\* n that a double holds exactly.
Float(neg, m, e) == [nan |-> FALSE, neg |-> neg, m |-> m, e |-> e]

FloatOf(n) == Float(n < 0, BigOf(IF n < 0 THEN 0 - n ELSE n), 0)

\* x / y for doubles other than NaN and y other than zero.
FloatDiv(x, y) ==
  IF x.m = <<>> THEN Float(x.neg # y.neg, <<>>, 0)
  ELSE LET r == RoundQuot(x.m, y.m)
       IN Float(x.neg # y.neg, r.m, r.e + x.e - y.e)

\* x * y for doubles other than NaN.
FloatMul(x, y) ==
  IF x.m = <<>> \/ y.m = <<>> THEN Float(x.neg # y.neg, <<>>, 0)
  ELSE LET r == RoundQuot(BigMul(x.m, y.m), <<1>>)
       IN Float(x.neg # y.neg, r.m, r.e + x.e + y.e)

\* -1, 0 or 1 as the magnitude m * 2^e is under, on or over n / d (n, d > 0).
CmpMagnitude(x, n, d) ==
  LET l == BigMulSmall(x.m, d)
  IN IF x.e >= 0 THEN BigCmp(BigShl(l, x.e), BigOf(n))
     ELSE BigCmp(l, BigShl(BigOf(n), 0 - x.e))

\* -1, 0 or 1 as the double x is under, on or over the fraction n / d (d > 0).
FloatCmp(x, n, d) ==
  IF x.m = <<>> THEN (IF n > 0 THEN 0 - 1 ELSE IF n < 0 THEN 1 ELSE 0)
  ELSE IF x.neg THEN (IF n >= 0 THEN 0 - 1 ELSE 0 - CmpMagnitude(x, 0 - n, d))
  ELSE IF n <= 0 THEN 1 ELSE CmpMagnitude(x, n, d)

\* --------------------------------------------------------------- features

\* (height_cm / 100.0) ** 2: the power is the correctly rounded square for
\* every whole number of centimetres up to 9596.
SquaredMetres(height_cm) ==
  LET h_m == FloatDiv(FloatOf(height_cm), FloatOf(100)) IN FloatMul(h_m, h_m)

\* Lines 77-80.
compute_bmi(height_cm, weight_kg) ==
  IF height_cm <= 0 THEN NaN
  ELSE FloatDiv(FloatOf(weight_kg), SquaredMetres(height_cm))

\* Series.between(lo, hi, inclusive="both"); NaN is never between.
Between(b, lo, hi) ==
  ~b.nan /\ FloatCmp(b, lo, 1) >= 0 /\ FloatCmp(b, hi, 1) <= 0

\* The boundaries [0, 16, 18.5, 23, 25, 30, 35, 100], doubled to stay integral.
bmi_bins ==
  <<0, 32, 37, 46, 50, 60, 70, 200>>

\* pd.cut(x, bins, labels=False, include_lowest=True): right-closed intervals
\* (bins[i], bins[i+1]], the first one closed on the left too; NaN outside.
pd_cut(b, bins) ==
  IF b.nan THEN NaNBucket
  ELSE LET inside(i) == /\ \/ FloatCmp(b, bins[i], 2) > 0
                          \/ (i = 1 /\ FloatCmp(b, bins[i], 2) = 0)
                       /\ FloatCmp(b, bins[i + 1], 2) <= 0
           hit == { i \in 1..(Len(bins) - 1) : inside(i) }
       IN IF hit = {} THEN NaNBucket ELSE (CHOOSE i \in hit : TRUE) - 1

\* np.digitize(x, bins, right=False): the number of boundaries <= x; a NaN
\* sorts after every boundary.
np_digitize(b, bins) ==
  IF b.nan THEN Len(bins)
  ELSE Cardinality({ i \in 1..Len(bins) : FloatCmp(b, bins[i], 2) >= 0 })

\* bmi_bins[1:-1].
Interior(bins) == SubSeq(bins, 2, Len(bins) - 1)

\* ---------------------------------------------------------------- ranking

\* A probability is an integer count of 1e-9.
Unit == 1000000000
\* np.clip(..., 1e-9, 1 - 1e-9), line 104.
CLIP_LO == 1
CLIP_HI == 999999999
\* The probabilities tried: level l is l/MaxLevel.
Level(l) == l * (Unit \div MaxLevel)
np_clip(x, lo, hi) == IF x < lo THEN lo ELSE IF x > hi THEN hi ELSE x

\* np.argsort(score) with the default kind: a permutation of the places of
\* score that puts the values in ascending order.  The default sort is not
\* a stable one, so every order of the places of equal values is a result
\* some build of numpy may give.
Argsorts(score) ==
  LET RECURSIVE Orders(_)
      Orders(S) ==
        IF S = {} THEN {<<>>}
        ELSE UNION { { <<i>> \o rest : rest \in Orders(S \ {i}) } :
                     i \in { k \in S : \A j \in S : score[k] <= score[j] } }
  IN Orders(1..Len(score))

\* seq[::-1].
Reversed(seq) == [i \in 1..Len(seq) |-> seq[Len(seq) + 1 - i]]

\* seq[:k + 1].
TakeOneMore(seq, k) ==
  SubSeq(seq, 1, IF k + 1 < Len(seq) THEN k + 1 ELSE Len(seq))

\* seq[:k]: the first k elements; for a negative k all but the last -k.
Take(seq, k) ==
  IF k >= 0
  THEN SubSeq(seq, 1, IF k < Len(seq) THEN k ELSE Len(seq))
  ELSE SubSeq(seq, 1, IF Len(seq) + k > 0 THEN Len(seq) + k ELSE 0)

\* Lines 119-130.
tag_to_korean_items ==
  <<
  [tag |-> "walking", korean |-> <<44151, 44592>>],
  [tag |-> "jogging", korean |-> <<51312, 44613>>],
  [tag |-> "cycling", korean |-> <<51088, 51204, 44144>>],
  [tag |-> "swimming", korean |-> <<49688, 50689>>],
  [tag |-> "aerobic_interval", korean |-> <<44256, 44053, 46020, 32, 51064, 53552, 48268>>],
  [tag |-> "strength_lower", korean |-> <<54616, 52404, 32, 44540, 47141, 32, 50868, 46041>>],
  [tag |-> "strength_upper", korean |-> <<49345, 52404, 32, 44540, 47141, 32, 50868, 46041>>],
  [tag |-> "strength_core", korean |-> <<53076, 50612, 32, 50868, 46041>>],
  [tag |-> "flexibility", korean |-> <<49828, 53944, 47112, 52845>>],
  [tag |-> "balance", korean |-> <<44512, 54805, 32, 50868, 46041>>] >>

\* tag_to_korean.get(tag, tag).
tag_to_korean(tag) ==
  LET hit == { i \in 1..Len(tag_to_korean_items) :
                 tag_to_korean_items[i].tag = tag }
  IN IF hit = {} THEN tag ELSE tag_to_korean_items[CHOOSE i \in hit : TRUE].korean

\* ------------------------------------------------------------- the table

\* The rows the fitness table may hold, in storage order, one of each kind
\* the pipeline tells apart: a usable one (walking and flexibility), one
\* whose note is blank, an implausible height, a note with no keyword, a
\* height and weight within their bounds whose BMI is not (173.6), and a
\* second usable one with other measurements and another tag (swimming),
\* stored after the rows that are dropped.
RowPool ==
  << [height_cm |-> 170, weight_kg |-> 70,
      pres_note |-> <<51452, 32, 51, 54924, 32, 44151, 44592, 50752, 32,
                      49828, 53944, 47112, 52845, 32, 48337, 54665>>],
     [height_cm |-> 170, weight_kg |-> 70, pres_note |-> <<32, 32>>],
     [height_cm |-> 100, weight_kg |-> 70, pres_note |-> <<44151, 44592>>],
     [height_cm |-> 170, weight_kg |-> 70, pres_note |-> <<55092, 49885>>],
     [height_cm |-> 120, weight_kg |-> 250, pres_note |-> <<44151, 44592>>],
     [height_cm |-> 160, weight_kg |-> 60, pres_note |-> <<49688, 50689>>] >>

RECURSIVE Repeat(_, _)
Repeat(x, n) == IF n = 0 THEN <<>> ELSE <<x>> \o Repeat(x, n - 1)

\* The table's records in storage order, each named by its place in RowPool.
RECURSIVE Expand(_, _)
Expand(counts, k) ==
  IF k = 0 THEN <<>> ELSE Expand(counts, k - 1) \o Repeat(k, counts[k])

RECURSIVE SelectRows(_, _)
SelectRows(rows, keep) ==
  IF rows = <<>> THEN <<>>
  ELSE (IF keep[1] THEN <<Head(rows)>> ELSE <<>>)
       \o SelectRows(Tail(rows), Tail(keep))

\* load_data_from_db: every record whose height, weight and trimmed note are
\* truthy.  A row of the frame is the record's place in RowPool.
load_data_from_db(counts) ==
  LET recs == Expand(counts, Len(RowPool))
  IN SelectRows(recs, [i \in 1..Len(recs) |->
                         /\ RowPool[recs[i]].height_cm # 0
                         /\ RowPool[recs[i]].weight_kg # 0
                         /\ Strip(RowPool[recs[i]].pres_note) # <<>>])

\* The row of the frame built from record k: its note trimmed (line 119).
Row(k) == [RowPool[k] EXCEPT !.pres_note = Strip(RowPool[k].pres_note)]

bmi_of(r) == compute_bmi(r.height_cm, r.weight_kg)

\* train_model step 3: the outlier mask.
InRange(r) ==
  /\ MIN_HEIGHT <= r.height_cm /\ r.height_cm <= MAX_HEIGHT
  /\ MIN_WEIGHT <= r.weight_kg /\ r.weight_kg <= MAX_WEIGHT
  /\ Between(bmi_of(r), MIN_BMI, MAX_BMI)

tags_of(r) == extract_tags(normalize_text(r.pres_note))

\* Lines 148-150, 163 and 175 for the row of every record of the pool: its
\* place in the outlier mask, its tags and its bmi_bucket.
Columns ==
  [k \in 1..Len(RowPool) |->
     [in_range |-> InRange(Row(k)), tags |-> tags_of(Row(k)),
      bmi_bucket |-> pd_cut(bmi_of(Row(k)), bmi_bins)]]

Max(a, b) == IF a >= b THEN a ELSE b
Min(a, b) == IF a <= b THEN a ELSE b

\* KFold(n_splits=min(N_SPLITS, max(2, len(df)//50))).
n_splits_of(n) == Min(N_SPLITS, Max(2, n \div 50))

\* KFold.split: the validation fold sizes are n // k, the first n % k folds
\* one larger; the training part of a fold is the rest.
fold_train_size(n, k, fold) ==
  n - ((n \div k) + (IF fold <= n % k THEN 1 ELSE 0))

\* What the cross-validation loop of train_model ends with: KFold.split
\* raises when n_splits exceeds the sample count, kneighbors raises when a
\* training part holds fewer than n_neighbors samples.
cv_outcome(n) ==
  LET k == n_splits_of(n)
  IN IF k > n THEN "raised"
     ELSE IF \E fold \in 1..k : fold_train_size(n, k, fold) < N_NEIGHBORS
          THEN "raised"
          ELSE "ok"

\* ------------------------------------------------------------------ state

FileNames == <<"preprocess", "ovr_lr", "knn", "meta">>
Files == { FileNames[i] : i \in 1..Len(FileNames) }

\* A file that does not exist.
Absent == 0 - 1
\* A file that has been opened for writing and is not yet whole.
Torn == 0 - 2
\* The writer of a bundle that was in the models directory before any run
\* of this behaviour.
PriorRun == 0

\* An attribute that is None; otherwise an attribute holds the blob read:
\* the run that wrote the file and the _load_model call that read it.
None == [run |-> Absent, load |-> 0]

NewService ==
  [preprocess |-> None, ovr_lr |-> None, knn |-> None, meta |-> None,
   model_loaded |-> FALSE]

\* Process 0 runs train_model (startup_event, which then reloads, or the
\* training script); the others serve
\* GET /prescription/recommend/{user_seq}.
Trainer == 0
Handlers == 1..NHandlers
Procs == {Trainer} \cup Handlers

VARIABLES
  files,        \* models directory: file name -> run that wrote it, or Absent
  legacy,       \* the files of the models directory under the names startup looks for
  db,           \* fitness table: how many rows of each kind of RowPool
  runs,         \* train_model calls started
  df,           \* train_model's data frame
  Y,            \* train_model's label matrix
  startFiles,   \* the models directory when the current train_model began
  tres,         \* how the last train_model call ended
  entry,        \* who called the running train_model: "startup" or "script"
  svc,          \* PrescriptionService objects by id
  nInst,        \* objects constructed
  singleton,    \* _prescription_service: an object id, or 0 for None
  nLoads,       \* _load_model calls started
  pc,           \* where each process is
  cur,          \* the object a process is calling a method of
  ret,          \* where _load_model returns to
  lid,          \* the id of the process's current _load_model call
  lmres,        \* how the process's last _load_model call ended
  args,         \* the arguments of the handler's predict_prescription call
  call,         \* what the handler's current call has done so far
  calls,        \* requests started
  faults,       \* artifact reads that have failed
  sched,        \* what runs beside what: "loop", "procs", "serve" or "reload"
  unavail,      \* objects on which a predict call failed for want of a model
  signals,      \* the exceptions predict_prescription has raised, and for what arguments
  clf,          \* predict_proba of the fitted objects: fit -> feature row -> scores
  argsort,      \* np.argsort of the installed numpy: score vector -> order
  inp,          \* the input of a function applied on its own
  outp          \* what the functions applied to inp gave

storeVars == <<files, legacy, db, sched>>
pureVars == <<inp, outp, clf, argsort>>
trainVars == <<runs, df, Y, startFiles, tres, entry>>
svcVars == <<svc, nInst, singleton, nLoads, faults>>
procVars == <<pc, cur, ret, lid, lmres>>
callVars == <<args, call, calls, unavail, signals>>
vars == <<files, legacy, db, sched, inp, outp, clf, argsort, runs, df, Y, startFiles, tres, entry, svc, nInst, singleton,
          nLoads, pc, cur, ret, lid, lmres, args, call, calls, faults,
          unavail, signals>>

\* --------------------------------------------------------------- training

Bundle(r) == [f \in Files |-> r]
NoBundle == Bundle(Absent)

\* The table train_model needs to get through cross-validation with two
\* folds: twice n_neighbors usable rows.
AmpleRows == 2 * N_NEIGHBORS

Goto(p, where) == pc' = [pc EXCEPT ![p] = where]

\* The route is a coroutine of the server's one event loop and calls
\* get_prescription_service and predict_prescription with no await between
\* them (router lines 140-148); startup_event runs train_model on that loop
\* too.  So the service code of one request, or the startup work, runs to
\* its end before another coroutine moves; a response that is about to
\* leave holds nothing up.  The training script (lines 331-337) is a
\* process of its own: it moves whatever the server does.  The runs under
\* "loop" are those in which nothing overlaps: the script too moves only
\* between the server's operations, and a request arrives once the
\* response to the one before has left.
OwnProcess(p) == sched # "loop" /\ p = Trainer /\ entry = "script"
Busy(q) ==
  IF sched = "loop" THEN pc[q] # "idle" ELSE pc[q] \notin {"idle", "respond"}
Quiet(p) == \A q \in Procs \ {p} : ~Busy(q) \/ OwnProcess(q)
Turn(p) == OwnProcess(p) \/ Quiet(p)
At(p, where) == pc[p] = where /\ Turn(p)

\* train_model returns early (a bare `return`).
TrainReturn ==
  /\ Goto(Trainer, "t_after")
  /\ tres' = "returned"

\* train_model is called: by startup_event, which reloads the service
\* afterwards, or as a script of its own (lines 331-337), which does not.
Entries == {"startup", "script"}

\* startup_event runs once, when the server starts: before any request is
\* served and before any service object is built.
ServerStarting == runs = 0 /\ nInst = 0 /\ calls = 0 /\ tres = "none"

TrainStart ==
  /\ At(Trainer, "idle")
  /\ runs < MaxRuns
  /\ runs' = runs + 1
  /\ entry' \in IF ServerStarting THEN Entries ELSE {"script"}
  /\ startFiles' = files
  /\ tres' = "running"
  /\ df' = <<>>
  /\ Y' = <<>>
  /\ Goto(Trainer, "t_load")
  /\ UNCHANGED <<storeVars, pureVars, svcVars, cur, ret, lid, lmres, callVars>>

\* 1) load the rows; no rows: return.
TrainLoadData ==
  /\ At(Trainer, "t_load")
  /\ df' = load_data_from_db(db)
  /\ IF Len(df') = 0
     THEN TrainReturn
     ELSE Goto(Trainer, "t_clean") /\ UNCHANGED tres
  /\ UNCHANGED <<storeVars, pureVars, runs, Y, startFiles, entry, svcVars, cur, ret, lid, lmres,
                 callVars>>

\* Step 3 with a mask of the height and the weight only.
TrainCleanSkipsBmi ==
  /\ At(Trainer, "t_clean")
  /\ df' = SelectRows(df, [i \in 1..Len(df) |->
                              /\ MIN_HEIGHT <= Row(df[i]).height_cm
                              /\ Row(df[i]).height_cm <= MAX_HEIGHT
                              /\ MIN_WEIGHT <= Row(df[i]).weight_kg
                              /\ Row(df[i]).weight_kg <= MAX_WEIGHT])
  /\ IF Len(df') = 0
     THEN TrainReturn
     ELSE Goto(Trainer, "t_tag") /\ UNCHANGED tres
  /\ UNCHANGED <<storeVars, pureVars, runs, Y, startFiles, entry, svcVars, cur, ret, lid, lmres,
                 callVars>>

\* 2) 3) normalise the notes, compute the BMI, drop the outliers.
TrainClean ==
  /\ At(Trainer, "t_clean")
  /\ df' = SelectRows(df, [i \in 1..Len(df) |-> Columns[df[i]].in_range])
  /\ IF Len(df') = 0
     THEN TrainReturn
     ELSE Goto(Trainer, "t_tag") /\ UNCHANGED tres
  /\ UNCHANGED <<storeVars, pureVars, runs, Y, startFiles, entry, svcVars, cur, ret, lid, lmres,
                 callVars>>

\* Step 4 without its `if len(df) == 0: return`: an empty frame goes on.
TrainTagKeepsEmpty ==
  /\ At(Trainer, "t_tag")
  /\ df' = SelectRows(df, [i \in 1..Len(df) |-> Columns[df[i]].tags # {}])
  /\ Goto(Trainer, "t_feat")
  /\ UNCHANGED <<storeVars, pureVars, runs, Y, startFiles, tres, entry, svcVars, cur,
                 ret, lid, lmres, callVars>>

\* Step 4 without the filter of line 164: every row goes on.
TrainTagKeepsAll ==
  /\ At(Trainer, "t_tag")
  /\ df' = df
  /\ IF Len(df') = 0
     THEN TrainReturn
     ELSE Goto(Trainer, "t_feat") /\ UNCHANGED tres
  /\ UNCHANGED <<storeVars, pureVars, runs, Y, startFiles, entry, svcVars, cur, ret, lid, lmres,
                 callVars>>

\* 4) extract the tags, drop the rows with none.
TrainTag ==
  /\ At(Trainer, "t_tag")
  /\ df' = SelectRows(df, [i \in 1..Len(df) |-> Columns[df[i]].tags # {}])
  /\ IF Len(df') = 0
     THEN TrainReturn
     ELSE Goto(Trainer, "t_feat") /\ UNCHANGED tres
  /\ UNCHANGED <<storeVars, pureVars, runs, Y, startFiles, entry, svcVars, cur, ret, lid, lmres,
                 callVars>>

\* The label matrix (np.stack raises on a frame with no row), then
\* 5) bmi_bucket, dropna and Y = Y[:len(df)].
TrainFeatures ==
  /\ At(Trainer, "t_feat")
  /\ df' = SelectRows(df, [i \in 1..Len(df) |->
                              Columns[df[i]].bmi_bucket # NaNBucket])
  /\ Y' = SubSeq([i \in 1..Len(df) |-> to_multihot(Columns[df[i]].tags, TAGS)],
                 1, Len(df'))
  /\ IF Len(df) = 0
     THEN Goto(Trainer, "t_after") /\ tres' = "raised"
     ELSE Goto(Trainer, "t_fit") /\ UNCHANGED tres
  /\ UNCHANGED <<storeVars, pureVars, runs, startFiles, entry, svcVars, cur, ret, lid,
                 lmres, callVars>>

\* Step 6 dumping the fitted transform as soon as it is fitted, before the
\* cross-validation.
TrainFitDumpsEarly ==
  /\ At(Trainer, "t_fit")
  /\ files' = [files EXCEPT !["preprocess"] = runs]
  /\ Goto(Trainer, "t_cv")
  /\ UNCHANGED <<legacy, db, sched, pureVars, trainVars, svcVars, cur, ret, lid, lmres,
                 callVars>>

\* 6) fit the transform, the one-vs-rest classifier and the neighbour model.
TrainFit ==
  /\ At(Trainer, "t_fit")
  /\ Goto(Trainer, "t_cv")
  /\ UNCHANGED <<storeVars, pureVars, trainVars, svcVars, cur, ret, lid, lmres, callVars>>

\* 7) cross-validation; an exception of the loop leaves train_model.
TrainCV ==
  /\ At(Trainer, "t_cv")
  /\ IF cv_outcome(Len(df)) = "raised"
     THEN Goto(Trainer, "t_after") /\ tres' = "raised"
     ELSE Goto(Trainer, "t_save_pre") /\ UNCHANGED tres
  /\ UNCHANGED <<storeVars, pureVars, runs, df, Y, startFiles, entry, svcVars, cur, ret, lid,
                 lmres, callVars>>

\* 8) joblib.dump / json.dump of one artifact over the file of that name:
\* the file is opened for writing, which cuts it to nothing, and then
\* written.  Between the two it is there and not whole, for a reader of
\* another process and for whoever comes after a writer that stopped here.
Dump(file, at, next) ==
  /\ At(Trainer, at)
  /\ IF files[file] # Torn
     THEN /\ files' = [files EXCEPT ![file] = Torn]
          /\ UNCHANGED pc
     ELSE /\ files' = [files EXCEPT ![file] = runs]
          /\ Goto(Trainer, next)
  /\ UNCHANGED <<legacy, db, sched, pureVars, runs, df, Y, startFiles, entry, svcVars, cur, ret, lid,
                 lmres, callVars>>

TrainSavePreprocess ==
  Dump("preprocess", "t_save_pre", "t_save_ovr") /\ UNCHANGED tres

TrainSaveOvr ==
  Dump("ovr_lr", "t_save_ovr", "t_save_knn") /\ UNCHANGED tres

TrainSaveKnn ==
  Dump("knn", "t_save_knn", "t_save_meta") /\ UNCHANGED tres

\* train_model has ended once json.dump has written the file.
TrainSaveMeta ==
  /\ Dump("meta", "t_save_meta", "t_after")
  /\ tres' = IF files["meta"] = Torn THEN "done" ELSE tres

TrainingPcs ==
  {"t_load", "t_clean", "t_tag", "t_feat", "t_fit", "t_cv",
   "t_save_pre", "t_save_ovr", "t_save_knn", "t_save_meta"}

\* train_model is cut short where it stands: the process is killed, or the
\* statement it is at fails (a full disk under a dump, a lost connection).
TrainAbort ==
  /\ pc[Trainer] \in TrainingPcs
  /\ Turn(Trainer)
  /\ tres' = "aborted"
  /\ df' = <<>>
  /\ Y' = <<>>
  /\ entry' = "none"
  /\ Goto(Trainer, "idle")
  /\ UNCHANGED <<storeVars, pureVars, runs, startFiles, svcVars, cur, ret, lid, lmres,
                 callVars>>

\* ---------------------------------------------------------- _load_model

\* No _load_model call yet; otherwise how the call ended and the runs whose
\* files it has read.
NoLoad == [res |-> "none", runs |-> {}]

\* Every read of an artifact file succeeds; or a read may fail.  The runs
\* beside the training script take sound reads of whole files, the runs of
\* one operation at a time reads that may fail.
Sound == {TRUE}
Flaky == BOOLEAN
Readable == IF sched = "loop" THEN Flaky ELSE Sound

AllExist == \A f \in Files : files[f] # Absent

\* joblib.load and json.load raise on a file that is not there, and on one
\* whose writer has not finished (a cut pickle has no STOP, a cut JSON
\* object no closing brace), with the flag of a lenient reader below.
UnreadableIfAbsent(file) == files[file] = Absent

Unreadable(file) == files[file] \in {Absent, Torn}

\* A caller enters _load_model on object `inst`, to come back at `back`.
BeginLoad(p, inst, back) ==
  /\ nLoads < MaxLoads
  /\ nLoads' = nLoads + 1
  /\ lid' = [lid EXCEPT ![p] = nLoads + 1]
  /\ cur' = [cur EXCEPT ![p] = inst]
  /\ ret' = [ret EXCEPT ![p] = back]
  /\ lmres' = [lmres EXCEPT ![p] = [res |-> "running", runs |-> {}]]
  /\ Goto(p, "lm_exists")

\* Lines 29-37 with the warning kept and the reads skipped: a directory
\* that lacks a file counts as loaded.
LmExistsSkipsReads(p) ==
  /\ At(p, "lm_exists")
  /\ Goto(p, IF AllExist THEN "lm_pre" ELSE "lm_done")
  /\ call' = [call EXCEPT ![p].whole = AllExist]
  /\ UNCHANGED <<storeVars, pureVars, trainVars, svcVars, cur, ret, lid, lmres, args,
                 calls, unavail, signals>>

\* Lines 29-37: any of the four paths missing: warn and return.
LmExists(p) ==
  /\ At(p, "lm_exists")
  /\ IF AllExist
     THEN Goto(p, "lm_pre") /\ UNCHANGED lmres
     ELSE Goto(p, ret[p]) /\ lmres' = [lmres EXCEPT ![p].res = "missing"]
  /\ call' = [call EXCEPT ![p].whole = AllExist]
  /\ UNCHANGED <<storeVars, pureVars, trainVars, svcVars, cur, ret, lid, args, calls,
                 unavail, signals>>

\* One read of lines 39-44 whose except clause only logs: model_loaded
\* stays what it was.
LoadBlobKeepsFlag(p, file, at, next) ==
  /\ At(p, at)
  /\ \E ok \in IF Unreadable(file) THEN {FALSE} ELSE Readable :
       IF ok
       THEN /\ svc' = [svc EXCEPT ![cur[p]][file] =
                                    [run |-> files[file], load |-> lid[p]]]
            /\ lmres' = [lmres EXCEPT
                           ![p].runs = lmres[p].runs \cup {files[file]}]
            /\ Goto(p, next)
            /\ UNCHANGED <<faults, call>>
       ELSE /\ Unreadable(file) \/ faults < MaxFaults
            /\ faults' = IF Unreadable(file) THEN faults ELSE faults + 1
            /\ lmres' = [lmres EXCEPT ![p].res = "error"]
            /\ call' = [call EXCEPT ![p].fault = TRUE]
            /\ Goto(p, ret[p])
            /\ UNCHANGED svc
  /\ UNCHANGED <<storeVars, pureVars, trainVars, nInst, singleton, nLoads, cur, ret, lid,
                 args, calls, unavail, signals>>

\* One read of lines 39-44: the attribute is set to the blob read; an
\* exception (lines 49-51) clears model_loaded and ends the call.
LoadBlob(p, file, at, next) ==
  /\ At(p, at)
  /\ \E ok \in IF Unreadable(file) THEN {FALSE} ELSE Readable :
       IF ok
       THEN /\ svc' = [svc EXCEPT ![cur[p]][file] =
                                    [run |-> files[file], load |-> lid[p]]]
            /\ lmres' = [lmres EXCEPT
                           ![p].runs = lmres[p].runs \cup {files[file]}]
            /\ Goto(p, next)
            /\ UNCHANGED <<faults, call>>
       ELSE /\ Unreadable(file) \/ faults < MaxFaults
            /\ faults' = IF Unreadable(file) THEN faults ELSE faults + 1
            /\ svc' = [svc EXCEPT ![cur[p]].model_loaded = FALSE]
            /\ lmres' = [lmres EXCEPT ![p].res = "error"]
            /\ call' = [call EXCEPT ![p].fault = TRUE]
            /\ Goto(p, ret[p])
  /\ UNCHANGED <<storeVars, pureVars, trainVars, nInst, singleton, nLoads, cur, ret, lid,
                 args, calls, unavail, signals>>

\* Line 39.
LmPreprocess(p) ==
  LoadBlob(p, "preprocess", "lm_pre", "lm_ovr")

\* Line 40.
LmOvr(p) ==
  LoadBlob(p, "ovr_lr", "lm_ovr", "lm_knn")

\* Line 41.
LmKnn(p) ==
  LoadBlob(p, "knn", "lm_knn", "lm_meta")

\* Lines 43-44.
LmMeta(p) ==
  LoadBlob(p, "meta", "lm_meta", "lm_done")

\* Lines 46-47 without `self.model_loaded = True`.
LmDoneLeavesFlag(p) ==
  /\ At(p, "lm_done")
  /\ lmres' = [lmres EXCEPT ![p].res = "loaded"]
  /\ Goto(p, ret[p])
  /\ UNCHANGED <<storeVars, pureVars, trainVars, svcVars, cur, ret, lid, callVars>>

\* Lines 46-47.
LmDone(p) ==
  /\ At(p, "lm_done")
  /\ svc' = [svc EXCEPT ![cur[p]].model_loaded = TRUE]
  /\ lmres' = [lmres EXCEPT ![p].res = "loaded"]
  /\ Goto(p, ret[p])
  /\ UNCHANGED <<storeVars, pureVars, trainVars, nInst, singleton, nLoads, faults, cur,
                 ret, lid, callVars>>

\* PrescriptionService(): __init__ clears the attributes of a new object
\* and calls _load_model on it.
Construct(p, at, back) ==
  /\ At(p, at)
  /\ nInst < MaxInst
  /\ nInst' = nInst + 1
  /\ svc' = [svc EXCEPT ![nInst + 1] = NewService]
  /\ BeginLoad(p, nInst + 1, back)
  /\ UNCHANGED <<storeVars, pureVars, trainVars, singleton, faults, callVars>>

\* ------------------------------------- startup_event after train_model

\* In startup_event, train_model returned: reload_prescription_service();
\* it raised: log.  The script ends.  The locals of train_model are gone.
AfterTrain ==
  /\ At(Trainer, "t_after")
  /\ Goto(Trainer, IF tres = "raised" \/ entry = "script"
                   THEN "idle" ELSE "rl_ctor")
  /\ df' = <<>>
  /\ Y' = <<>>
  /\ entry' = "none"
  /\ UNCHANGED <<storeVars, pureVars, runs, startFiles, tres, svcVars, cur, ret, lid,
                 lmres, callVars>>

ReloadConstruct == Construct(Trainer, "rl_ctor", "rl_assign")

\* reload_prescription_service binds the global to the new object.
ReloadAssign ==
  /\ At(Trainer, "rl_assign")
  /\ singleton' = cur[Trainer]
  /\ cur' = [cur EXCEPT ![Trainer] = 0]
  /\ ret' = [ret EXCEPT ![Trainer] = "idle"]
  /\ lid' = [lid EXCEPT ![Trainer] = 0]
  /\ lmres' = [lmres EXCEPT ![Trainer] = NoLoad]
  /\ Goto(Trainer, "idle")
  /\ UNCHANGED <<storeVars, pureVars, trainVars, svc, nInst, nLoads, faults, callVars>>

\* _load_model called by itself on the serving object, as an operation of
\* its own.  The lazy load of predict_prescription and the constructor cover
\* the object that is not loaded; this action covers the object that is, the
\* one way a load meets attributes that are set.  Process p makes the call.
DirectLoad(p) ==
  /\ At(p, "idle")
  /\ singleton # 0
  /\ svc[singleton].model_loaded
  /\ BeginLoad(p, singleton, "dl_done")
  /\ UNCHANGED <<storeVars, pureVars, trainVars, svc, nInst, singleton, faults,
                 callVars>>

\* The direct call has returned.
DirectDone(p) ==
  /\ At(p, "dl_done")
  /\ cur' = [cur EXCEPT ![p] = 0]
  /\ ret' = [ret EXCEPT ![p] = "idle"]
  /\ lid' = [lid EXCEPT ![p] = 0]
  /\ lmres' = [lmres EXCEPT ![p] = NoLoad]
  /\ Goto(p, "idle")
  /\ UNCHANGED <<storeVars, pureVars, trainVars, svcVars, callVars>>

\* ---------------------------------------------------------- startup_event

\* The two names besides prescriptor_meta.json that startup_event looks for
\* (lines 108-109).  train_model writes neither.
LegacyNames == {"model", "label_encoder"}
NoLegacy == {}

\* Line 112.
needs_training ==
  \/ "model" \notin legacy
  \/ "label_encoder" \notin legacy
  \/ files["meta"] = Absent

\* Lines 112-116 and 125: the server has just started; train, or go on to
\* the service.
StartupCheck ==
  /\ At(Trainer, "idle")
  /\ runs = 0
  /\ nInst = 0
  /\ tres = "none"
  /\ IF needs_training
     THEN /\ runs' = runs + 1
          /\ entry' = "startup"
          /\ startFiles' = files
          /\ tres' = "running"
          /\ Goto(Trainer, "t_load")
          /\ UNCHANGED <<df, Y>>
     ELSE /\ Goto(Trainer, "su_get")
          /\ UNCHANGED trainVars
  /\ UNCHANGED <<storeVars, pureVars, svcVars, cur, ret, lid, lmres, callVars>>

\* Line 129: get_prescription_service() constructs the first object.
StartupGet ==
  IF singleton = 0
  THEN Construct(Trainer, "su_get", "su_assign")
  ELSE /\ At(Trainer, "su_get")
       /\ cur' = [cur EXCEPT ![Trainer] = singleton]
       /\ Goto(Trainer, "su_flag")
       /\ UNCHANGED <<storeVars, pureVars, trainVars, svcVars, ret, lid, lmres,
                      callVars>>

\* prescription_service.py line 156, the assignment.
StartupAssign ==
  /\ At(Trainer, "su_assign")
  /\ singleton' = cur[Trainer]
  /\ Goto(Trainer, "su_flag")
  /\ UNCHANGED <<storeVars, pureVars, trainVars, svc, nInst, nLoads, faults, cur, ret,
                 lid, lmres, callVars>>

\* Lines 130-132: an object that is not loaded loads once more.
StartupFlag ==
  /\ At(Trainer, "su_flag")
  /\ IF svc[cur[Trainer]].model_loaded
     THEN /\ Goto(Trainer, "su_done")
          /\ UNCHANGED <<nLoads, cur, ret, lid, lmres>>
     ELSE BeginLoad(Trainer, cur[Trainer], "su_done")
  /\ UNCHANGED <<storeVars, pureVars, trainVars, svc, nInst, singleton, faults,
                 callVars>>

\* Lines 133-138: the outcome is logged; startup is over.
StartupDone ==
  /\ At(Trainer, "su_done")
  /\ cur' = [cur EXCEPT ![Trainer] = 0]
  /\ ret' = [ret EXCEPT ![Trainer] = "idle"]
  /\ lid' = [lid EXCEPT ![Trainer] = 0]
  /\ lmres' = [lmres EXCEPT ![Trainer] = NoLoad]
  /\ Goto(Trainer, "idle")
  /\ UNCHANGED <<storeVars, pureVars, trainVars, svcVars, callVars>>

\* ------------------------------------------------------ the request path

\* What predict_prescription can be called with.  A call through the route
\* passes a stored user's height and weight; signup stores no user whose
\* height is not positive (calculate_bmi raises), and any weight.
\* A direct call stands for the heights the route cannot pass.
Heights == {0 - 170, 0, 170}
Weights == {0, 70}
TopKs == {3}
ConfThrs == {CONF_THR}
ArgSets ==
  [height_cm : { h \in Heights : h <= 0 }, weight_kg : Weights, top_k : TopKs,
   conf_thr : ConfThrs, via : {"direct"}]
  \cup
  [height_cm : { h \in Heights : h > 0 }, weight_kg : Weights, top_k : TopKs,
   conf_thr : ConfThrs, via : {"route"}]
RouteArgSets == { a \in ArgSets : a.via = "route" }

\* The requests of a server that only serves: two users, two values of top_k.
ServeWeights == {60, 70}
ServeTopKs == {1, 3}
ServeArgSets ==
  [height_cm : { h \in Heights : h > 0 }, weight_kg : ServeWeights,
   top_k : ServeTopKs, conf_thr : ConfThrs, via : {"route"}]

\* The requests of a server whose service is reloaded: one user, with the
\* default top_k.
ReloadArgSets == { a \in ServeArgSets : a.weight_kg = 70 /\ a.top_k = 3 }

NoArgs ==
  [height_cm |-> 170, weight_kg |-> 70, top_k |-> 3, conf_thr |-> CONF_THR,
   via |-> "direct"]

\* The feature rows predict_proba is asked about, and what the fitted
\* objects answer: fitting is opaque here, so any function of the fit (the
\* runs that wrote the transform and the classifier in use) and the row.
FeatureRows ==
  { <<a.height_cm, a.weight_kg>> : a \in ArgSets \cup ServeArgSets }
Fits == (0..MaxRuns) \X (0..MaxRuns)
\* PlainScore rises from tag to tag; in TiedScore the three highest are
\* equal, in StraddleScore the third and the fourth highest.
PlainScore == [i \in 1..Len(TAGS) |-> Level(i)]
TiedScore ==
  [i \in 1..Len(TAGS) |-> IF i > Len(TAGS) - 3 THEN Level(Len(TAGS) - 2)
                           ELSE Level(i)]
StraddleScore ==
  [i \in 1..Len(TAGS) |-> IF i = Len(TAGS) - 2 THEN Level(Len(TAGS) - 3)
                           ELSE Level(i)]
PlainClf == [fit \in Fits |-> [x \in FeatureRows |-> PlainScore]]
ServeRows == { <<a.height_cm, a.weight_kg>> : a \in ServeArgSets }
RowClfs(rows) ==
  { f \in [FeatureRows -> {PlainScore, TiedScore}] :
      \A x \in FeatureRows \ rows : f[x] = PlainScore }
\* Where nothing is fitted or loaded anew, one classifier whatever the fit.
ServeClfs == { [fit \in Fits |-> f] : f \in RowClfs(ServeRows) }
\* Where the service is reloaded: the objects found at startup answer with
\* distinct scores, and the objects of any later run with two equal ones,
\* which a cut at top_k = 3 parts.
ReloadRows == { <<a.height_cm, a.weight_kg>> : a \in ReloadArgSets }
ReloadClfs ==
  { [fit \in Fits |->
       [x \in FeatureRows |->
          IF fit # <<PriorRun, PriorRun>> /\ x \in ReloadRows
          THEN StraddleScore ELSE PlainScore]] }

\* Line 104: np.clip over the whole vector.
Clipped(proba) ==
  [i \in 1..Len(proba) |-> np_clip(proba[i], CLIP_LO, CLIP_HI)]

\* Line 116: np.argsort(score).  The installed numpy is a function of the
\* array it is given; which of the orders of equal values it returns is
\* fixed by the build and held in argsort.
np_argsort(score) == argsort[score]

\* Lines 104-140: the clipped probabilities are the score, the order is the
\* reversed argsort cut at top_k, and each place of it gives one candidate.
\* conf_thr is a parameter no statement reads.
Candidates(proba, tags, top_k, conf_thr) ==
  LET score == Clipped(proba)
      order == Take(Reversed(np_argsort(score)), top_k)
  IN [r \in 1..Len(order) |->
        [pres_note |-> tag_to_korean(tags[order[r]]),
         prob |-> score[order[r]]]]

\* The runs beside the training script take the requests the route can
\* pass (a stored user's height, which is positive, and weight, which is
\* any), the runs of one operation at a time direct calls as well.
Queries ==
  IF sched = "procs" THEN RouteArgSets
  ELSE IF sched = "serve" THEN ServeArgSets
  ELSE IF sched = "reload" THEN ReloadArgSets
  ELSE ArgSets

\* The requests a run takes.
CallLimit == IF sched = "reload" THEN MaxServed ELSE MaxCalls

NoOutcome == [kind |-> "none", type |-> "", msg |-> ""]
\* Line 77.
ModelNotLoaded == [kind |-> "raise", type |-> "ValueError", msg |-> "not_loaded"]
\* Line 144.
PredictFailed == [kind |-> "raise", type |-> "ValueError", msg |-> "predict_failed"]
Returned == [kind |-> "ok", type |-> "", msg |-> ""]

NoneUsed ==
  [bins |-> None, preprocess |-> None, tags |-> None, ovr_lr |-> None,
   knn |-> None]

\* What one predict_prescription call has done: the place of its request
\* among the requests that arrived, the object it runs on,
\* model_loaded as line 73 and as line 76 read it, its _load_model calls, whether the
\* models directory was complete when its load looked, whether a read of
\* its load failed, whether line 81 was reached, the attributes it read,
\* whether the object had failed a call for want of a model before, and
\* how the call ended; the probabilities it got, what its score was made
\* of, what predict_prescription logged, and the list it returned.
NewCall ==
  [no |-> 0, inst |-> 0, seen |-> "-", after |-> "-", lazy |-> 0, whole |-> FALSE, fault |-> FALSE,
   feat |-> FALSE, bucket |-> NaNBucket, used |-> NoneUsed, retry |-> FALSE,
   proba |-> <<>>, scored |-> "-", log |-> {}, result |-> <<>>,
   out |-> NoOutcome]

\* A request arrives (router lines 135-137).
Request(p) ==
  /\ At(p, "idle")
  /\ calls < CallLimit
  /\ calls' = calls + 1
  /\ \E a \in Queries : args' = [args EXCEPT ![p] = a]
  /\ call' = [call EXCEPT ![p] = [NewCall EXCEPT !.no = calls + 1]]
  /\ Goto(p, "gs_check")
  /\ UNCHANGED <<storeVars, pureVars, trainVars, svcVars, cur, ret, lid, lmres, unavail, signals>>

\* get_prescription_service, line 155.
GsCheck(p) ==
  /\ At(p, "gs_check")
  /\ Goto(p, IF singleton = 0 THEN "gs_ctor" ELSE "gs_return")
  /\ UNCHANGED <<storeVars, pureVars, trainVars, svcVars, cur, ret, lid, lmres, callVars>>

\* Line 156, the constructor call.
GsConstruct(p) == Construct(p, "gs_ctor", "gs_assign")

\* Line 156, the assignment.
GsAssign(p) ==
  /\ At(p, "gs_assign")
  /\ singleton' = cur[p]
  /\ Goto(p, "gs_return")
  /\ UNCHANGED <<storeVars, pureVars, trainVars, svc, nInst, nLoads, faults, cur, ret,
                 lid, lmres, callVars>>

\* Line 157: the global is read again for the return value.
GsReturn(p) ==
  /\ At(p, "gs_return")
  /\ cur' = [cur EXCEPT ![p] = singleton]
  /\ call' = [call EXCEPT ![p].inst = singleton,
                          ![p].retry = singleton \in unavail]
  /\ Goto(p, "pp_check")
  /\ UNCHANGED <<storeVars, pureVars, trainVars, svcVars, ret, lid, lmres, args, calls,
                 unavail, signals>>

\* An exception leaving predict_prescription, with the measurements the
\* call was given.
Raised(p, outcome) ==
  [out |-> outcome, height_cm |-> args[p].height_cm,
   weight_kg |-> args[p].weight_kg]

\* Lines 142-144: the exception is logged and ValueError raised.
Finish(p, outcome) ==
  /\ call' = [call EXCEPT ![p].out = outcome,
                          ![p].log = call[p].log \cup {"predict_failed"}]
  /\ signals' = IF outcome.kind = "raise"
                THEN signals \cup {Raised(p, outcome)}
                ELSE signals
  /\ Goto(p, "respond")

\* reload_prescription_service called in the server as an operation of its
\* own, by a coroutine of the event loop, lines 160-164: the constructor
\* call, then the assignment.  In this repository startup_event is its one
\* caller.
DirectReload(p) == Construct(p, "idle", "rl_assign")

DirectAssign(p) ==
  /\ At(p, "rl_assign")
  /\ singleton' = cur[p]
  /\ cur' = [cur EXCEPT ![p] = 0]
  /\ ret' = [ret EXCEPT ![p] = "idle"]
  /\ lid' = [lid EXCEPT ![p] = 0]
  /\ lmres' = [lmres EXCEPT ![p] = NoLoad]
  /\ call' = [call EXCEPT ![p] = NewCall]
  /\ Goto(p, "idle")
  /\ UNCHANGED <<storeVars, pureVars, trainVars, svc, nInst, nLoads, faults,
                 args, calls, unavail, signals>>

\* Router lines 149-152: the response is sent or the exception passed on,
\* and the handler's frame is gone.
Respond(p) ==
  /\ At(p, "respond")
  /\ call' = [call EXCEPT ![p] = NewCall]
  /\ args' = [args EXCEPT ![p] = NoArgs]
  /\ cur' = [cur EXCEPT ![p] = 0]
  /\ ret' = [ret EXCEPT ![p] = "idle"]
  /\ lid' = [lid EXCEPT ![p] = 0]
  /\ lmres' = [lmres EXCEPT ![p] = NoLoad]
  /\ Goto(p, "idle")
  /\ UNCHANGED <<storeVars, pureVars, trainVars, svcVars, calls, unavail, signals>>

\* Lines 73-75 calling _load_model on every call, loaded or not.
PpCheckLoadsEveryCall(p) ==
  /\ At(p, "pp_check")
  /\ call' = [call EXCEPT ![p].seen = IF svc[cur[p]].model_loaded
                                      THEN "loaded" ELSE "unloaded",
                          ![p].lazy = call[p].lazy + 1,
                          ![p].log = call[p].log \cup {"reloading"}]
  /\ BeginLoad(p, cur[p], "pp_recheck")
  /\ UNCHANGED <<storeVars, pureVars, trainVars, svc, nInst, singleton, faults, args,
                 calls, unavail, signals>>

\* predict_prescription lines 73-75.
PpCheck(p) ==
  /\ At(p, "pp_check")
  /\ IF svc[cur[p]].model_loaded
     THEN /\ call' = [call EXCEPT ![p].seen = "loaded"]
          /\ Goto(p, "pp_bmi")
          /\ UNCHANGED <<nLoads, cur, ret, lid, lmres>>
     ELSE /\ call' = [call EXCEPT ![p].seen = "unloaded",
                                  ![p].lazy = call[p].lazy + 1,
                                  ![p].log = call[p].log \cup {"reloading"}]
          /\ BeginLoad(p, cur[p], "pp_recheck")
  /\ UNCHANGED <<storeVars, pureVars, trainVars, svc, nInst, singleton, faults, args,
                 calls, unavail, signals>>

\* Lines 76-77 with a second _load_model call before giving up.
PpRecheckLoadsAgain(p) ==
  /\ At(p, "pp_recheck")
  /\ IF svc[cur[p]].model_loaded
     THEN /\ call' = [call EXCEPT ![p].after = "loaded"]
          /\ Goto(p, "pp_bmi")
          /\ UNCHANGED <<unavail, signals, nLoads, ret, lid, lmres, cur>>
     ELSE IF call[p].lazy < 2
          THEN /\ call' = [call EXCEPT ![p].lazy = call[p].lazy + 1]
               /\ BeginLoad(p, cur[p], "pp_recheck")
               /\ UNCHANGED <<unavail, signals>>
          ELSE /\ call' = [call EXCEPT ![p].after = "unloaded",
                                       ![p].out = ModelNotLoaded]
               /\ signals' = signals \cup {Raised(p, ModelNotLoaded)}
               /\ unavail' = unavail \cup {cur[p]}
               /\ Goto(p, "respond")
               /\ UNCHANGED <<nLoads, ret, lid, lmres, cur>>
  /\ UNCHANGED <<storeVars, pureVars, trainVars, svc, nInst, singleton, faults, args,
                 calls>>

\* Lines 76-77.
PpRecheck(p) ==
  /\ At(p, "pp_recheck")
  /\ IF svc[cur[p]].model_loaded
     THEN /\ call' = [call EXCEPT ![p].after = "loaded"]
          /\ Goto(p, "pp_bmi")
          /\ UNCHANGED <<unavail, signals>>
     ELSE /\ call' = [call EXCEPT ![p].after = "unloaded",
                                  ![p].out = ModelNotLoaded]
          /\ signals' = signals \cup {Raised(p, ModelNotLoaded)}
          /\ unavail' = unavail \cup {cur[p]}
          /\ Goto(p, "respond")
  /\ UNCHANGED <<storeVars, pureVars, trainVars, svcVars, cur, ret, lid, lmres, args,
                 calls>>

\* Line 81: float division; a zero height raises ZeroDivisionError, which
\* lines 142-144 turn into ValueError.
PpBmi(p) ==
  /\ At(p, "pp_bmi")
  /\ IF args[p].height_cm = 0
     THEN /\ call' = [call EXCEPT ![p].feat = TRUE, ![p].out = PredictFailed,
                                  ![p].log = call[p].log \cup {"predict_failed"}]
          /\ signals' = signals \cup {Raised(p, PredictFailed)}
          /\ Goto(p, "respond")
     ELSE /\ call' = [call EXCEPT ![p].feat = TRUE]
          /\ Goto(p, "pp_bins")
          /\ UNCHANGED signals
  /\ UNCHANGED <<storeVars, pureVars, trainVars, svcVars, cur, ret, lid, lmres, args,
                 calls, unavail>>

\* Line 81 for a height other than zero.
predict_bmi(height_cm, weight_kg) ==
  FloatDiv(FloatOf(weight_kg), SquaredMetres(height_cm))

\* Lines 81-85 with the bucket found as recommend_top3 finds it.
predict_bucket_digitized(height_cm, weight_kg) ==
  np_digitize(predict_bmi(height_cm, weight_kg), Interior(bmi_bins))

\* Lines 81-85, for a height other than zero.
predict_bucket(height_cm, weight_kg) ==
  pd_cut(predict_bmi(height_cm, weight_kg), bmi_bins)

\* Lines 81-85 for every height and weight a request carries.
RequestBuckets ==
  [q \in (Heights \ {0}) \X (Weights \cup ServeWeights) |->
     predict_bucket(q[1], q[2])]

\* One statement of lines 84-113 that reads attribute `attr` of self: a
\* None there raises, which lines 142-144 turn into ValueError.
UseAttr(p, attr, slot, at, next) ==
  /\ At(p, at)
  /\ IF svc[cur[p]][attr] = None
     THEN Finish(p, PredictFailed)
     ELSE /\ call' = [call EXCEPT ![p].used[slot] = svc[cur[p]][attr]]
          /\ Goto(p, next)
          /\ UNCHANGED signals
  /\ UNCHANGED <<storeVars, pureVars, trainVars, svcVars, cur, ret, lid, lmres, args,
                 calls, unavail>>

\* Lines 84-89: self.meta["bmi_bins"], the bucket, the feature names.
PpBins(p) ==
  /\ At(p, "pp_bins")
  /\ IF svc[cur[p]].meta = None
     THEN Finish(p, PredictFailed)
     ELSE /\ call' = [call EXCEPT
                        ![p].used.bins = svc[cur[p]].meta,
                        ![p].bucket = RequestBuckets[<<args[p].height_cm,
                                                       args[p].weight_kg>>]]
          /\ Goto(p, "pp_transform")
          /\ UNCHANGED signals
  /\ UNCHANGED <<storeVars, pureVars, trainVars, svcVars, cur, ret, lid, lmres, args,
                 calls, unavail>>

\* Lines 90-98: self.preprocess.transform(X).
PpTransform(p) == UseAttr(p, "preprocess", "preprocess", "pp_transform", "pp_tags")

\* Line 101: self.meta["tags"].
PpTags(p) == UseAttr(p, "meta", "tags", "pp_tags", "pp_proba")

\* Lines 90-104 on the feature row of a call, with the transform and the
\* classifier of the runs given.
predict_proba(pre, ovr, a) == clf[<<pre, ovr>>][<<a.height_cm, a.weight_kg>>]

\* Line 104: self.ovr_lr.predict_proba on the transformed feature row.
PpProba(p) ==
  /\ At(p, "pp_proba")
  /\ IF svc[cur[p]].ovr_lr = None
     THEN Finish(p, PredictFailed)
     ELSE /\ call' = [call EXCEPT
                        ![p].used.ovr_lr = svc[cur[p]].ovr_lr,
                        ![p].proba = predict_proba(call[p].used.preprocess.run,
                                                   svc[cur[p]].ovr_lr.run,
                                                   args[p])]
          /\ Goto(p, "pp_knn")
          /\ UNCHANGED signals
  /\ UNCHANGED <<storeVars, pureVars, trainVars, svcVars, cur, ret, lid, lmres,
                 args, calls, unavail>>

\* Lines 107-140 with equal scores put in an order drawn at each call (a
\* shuffle before the sort, a sort over a set).
PpKnnBreaksTiesPerCall(p) ==
  /\ At(p, "pp_knn")
  /\ IF svc[cur[p]].knn = None
     THEN Finish(p, PredictFailed)
     ELSE /\ \E order \in Argsorts(Clipped(call[p].proba)) :
               call' = [call EXCEPT
                          ![p].used.knn = svc[cur[p]].knn,
                          ![p].scored = "logistic_only",
                          ![p].result =
                            [r \in 1..Len(Take(Reversed(order), args[p].top_k)) |->
                               [pres_note |->
                                  tag_to_korean(TAGS[Reversed(order)[r]]),
                                prob |->
                                  Clipped(call[p].proba)[Reversed(order)[r]]]],
                          ![p].out = Returned]
          /\ Goto(p, "respond")
          /\ UNCHANGED signals
  /\ UNCHANGED <<storeVars, pureVars, trainVars, svcVars, cur, ret, lid, lmres,
                 args, calls, unavail>>

\* Lines 107-140 dropping self.knn once the neighbours are found.
PpKnnDropsNeighbours(p) ==
  /\ At(p, "pp_knn")
  /\ IF svc[cur[p]].knn = None
     THEN Finish(p, PredictFailed) /\ UNCHANGED svc
     ELSE /\ call' = [call EXCEPT
                        ![p].used.knn = svc[cur[p]].knn,
                        ![p].scored = "logistic_only",
                        ![p].result = Candidates(call[p].proba, TAGS,
                                                 args[p].top_k,
                                                 args[p].conf_thr),
                        ![p].out = Returned]
          /\ svc' = [svc EXCEPT ![cur[p]].knn = None]
          /\ Goto(p, "respond")
          /\ UNCHANGED signals
  /\ UNCHANGED <<storeVars, pureVars, trainVars, nInst, singleton, nLoads,
                 faults, cur, ret, lid, lmres, args, calls, unavail>>

\* Lines 107-140: self.knn.kneighbors, whose weights no statement uses
\* (line 113: score = proba_lr), the ranking, the result.  Nothing is
\* logged on this path.
PpKnn(p) ==
  /\ At(p, "pp_knn")
  /\ IF svc[cur[p]].knn = None
     THEN Finish(p, PredictFailed)
     ELSE /\ call' = [call EXCEPT
                        ![p].used.knn = svc[cur[p]].knn,
                        ![p].scored = "logistic_only",
                        ![p].result = Candidates(call[p].proba, TAGS,
                                                 args[p].top_k,
                                                 args[p].conf_thr),
                        ![p].out = Returned]
          /\ Goto(p, "respond")
          /\ UNCHANGED signals
  /\ UNCHANGED <<storeVars, pureVars, trainVars, svcVars, cur, ret, lid, lmres, args,
                 calls, unavail>>

\* ------------------------------------------- functions applied on their own

NoInput == [kind |-> "none"]
\* Results are kept as <<name, value>> pairs.
NoOutput == {}
Has(name) == \E x \in outp : x[1] = name
Put(name, value) == outp' = outp \cup {<<name, value>>}
PureFrame ==
  UNCHANGED <<storeVars, trainVars, svcVars, procVars, callVars, inp, clf, argsort>>

\* Heights whose metres and their square doubles hold exactly.
BucketHeights == {100, 200}
\* With height 100 the BMI is the weight; with 200 a quarter of it (74 gives
\* 18.5): values under, on, between and over the boundaries.
BucketWeights ==
  {0 - 4, 0, 8, 16, 20, 23, 24, 25, 30, 35, 64, 74, 92, 100, 101, 120, 140, 400,
   404}
\* Pairs whose BMI is a boundary as a fraction (25, 25, 100) and not as the
\* double computed: 25.000000000000004, 24.999999999999996,
\* 100.00000000000001.
RoundedPairs == {<<140, 49>>, <<160, 64>>, <<70, 49>>}
BucketInputs ==
  [kind : {"bucket"}, height_cm : BucketHeights, weight_kg : BucketWeights]
  \cup { [kind |-> "bucket", height_cm |-> q[1], weight_kg |-> q[2]] :
           q \in RoundedPairs }

\* train_model lines 149 and 174-175 on one row.
train_bucket(height_cm, weight_kg) ==
  pd_cut(compute_bmi(height_cm, weight_kg), bmi_bins)

\* recommend_top3 lines 300-303.
top3_bucket(height_cm, weight_kg) ==
  np_digitize(compute_bmi(height_cm, weight_kg), Interior(bmi_bins))

TrainBucket ==
  /\ inp.kind = "bucket"
  /\ ~Has("train")
  /\ Put("train", train_bucket(inp.height_cm, inp.weight_kg))
  /\ PureFrame

PredictBucket ==
  /\ inp.kind = "bucket"
  /\ ~Has("predict")
  /\ Put("predict", predict_bucket(inp.height_cm, inp.weight_kg))
  /\ PureFrame

Top3Bucket ==
  /\ inp.kind = "bucket"
  /\ ~Has("top3")
  /\ Put("top3", top3_bucket(inp.height_cm, inp.weight_kg))
  /\ PureFrame

\* What predict_proba may give for the ten tags: the rising vector with up
\* to MaxTied of its places set to one level, so that values are equal in
\* rising, falling and straddling places.
ScoreVectors ==
  { [i \in 1..Len(TAGS) |-> IF i \in T THEN Level(l) ELSE PlainScore[i]] :
      T \in { S \in SUBSET (1..Len(TAGS)) : Cardinality(S) <= MaxTied },
      l \in 0..MaxLevel }
RankInputs == [kind : {"rank"}, proba : ScoreVectors]

\* Lines 104-140 on one probability vector, with the route's conf_thr.
RankApply(top_k) ==
  /\ inp.kind = "rank"
  /\ ~Has("rank")
  /\ Put("rank", [top_k |-> top_k, conf_thr |-> CONF_THR,
                  result |-> Candidates(inp.proba, TAGS, top_k, CONF_THR)])
  /\ PureFrame

\* The raw notes the extractor is tried on: a two-word keyword, two keywords
\* of one tag, capitals with tabs and runs of spaces, one word, no keyword.
Notes ==
  {<<44032, 48333, 44172, 32, 46832, 44592>>,
   <<54616, 52404, 32, 44540, 47141, 32, 49828, 53244, 53944>>,
   <<32, 72, 73, 73, 84, 9, 32, 73, 110, 116, 101, 114, 118, 97, 108, 32>>,
   <<49688, 50689>>,
   <<47588, 51068, 32, 51, 48, 48516>>,
   <<44032, 48333, 44172, 160, 46832, 44592>>}

\* Every (tag, keyword) place of KEYWORDS.
KeywordPlaces ==
  UNION { {u} \X (1..Len(KEYWORDS[u].kws)) : u \in 1..Len(KEYWORDS) }

\* The places of a note where a word may be put: its start, its end, and
\* either side of a whitespace character.
WordBoundaries(n) ==
  { i \in 0..Len(n) :
      \/ i = 0
      \/ i = Len(n)
      \/ IsSpace(n[i])
      \/ IsSpace(n[i + 1]) }

NoteInputs ==
  UNION { [kind : {"note"}, note : {n}, kw : KeywordPlaces,
           at : WordBoundaries(n), sep : {<<>>, <<32>>}] : n \in Notes }

\* The note with the keyword put in at the place, sep on both sides of it.
WithKeyword(x) ==
  SubSeq(x.note, 1, x.at) \o x.sep \o KEYWORDS[x.kw[1]].kws[x.kw[2]] \o x.sep
    \o SubSeq(x.note, x.at + 1, Len(x.note))

\* train_model lines 149 and 163 on one note.
note_tags(pres_note) == extract_tags(normalize_text(pres_note))

ExtractPlain ==
  /\ inp.kind = "note"
  /\ ~Has("plain")
  /\ Put("plain", note_tags(inp.note))
  /\ PureFrame

ExtractWithKeyword ==
  /\ inp.kind = "note"
  /\ ~Has("with_keyword")
  /\ Put("with_keyword", note_tags(WithKeyword(inp)))
  /\ PureFrame

\* The score 0.5 of line 236, in counts of 1e-9.
binarize_at == Unit \div 2

\* np.argmax over one row: the first place of its greatest value.
np_argmax(row) ==
  CHOOSE j \in 1..Len(row) :
    /\ \A k \in 1..Len(row) : row[k] <= row[j]
    /\ \A k \in 1..(j - 1) : row[k] < row[j]

\* Line 236: (score >= 0.5).astype(int).
Thresholded(score) ==
  [i \in 1..Len(score) |->
     [j \in 1..Len(score[i]) |-> IF score[i][j] >= binarize_at THEN 1 ELSE 0]]

RECURSIVE RowSum(_)
RowSum(row) == IF row = <<>> THEN 0 ELSE Head(row) + RowSum(Tail(row))

\* Lines 236-241 without the repair of the all-zero rows.
ThresholdedOnly(score) == Thresholded(score)

\* Lines 236-241: the rows of the mask `zeros`, in order, each paired with
\* its entry of top1 by the assignment Y_pred[zeros, top1] = 1.
Binarized(score) ==
  LET Y_pred == Thresholded(score)
      all == [i \in 1..Len(score) |-> i]
      zeros == SelectRows(all, [i \in 1..Len(score) |-> RowSum(Y_pred[i]) = 0])
      top1 == [r \in 1..Len(zeros) |-> np_argmax(score[zeros[r]])]
  IN [i \in 1..Len(score) |->
        [j \in 1..Len(score[i]) |->
           IF \E r \in 1..Len(zeros) : zeros[r] = i /\ top1[r] = j
           THEN 1
           ELSE Y_pred[i][j]]]

\* Hybrid score rows of a validation fold: one tag at a level of its own
\* (under, on or over 0.5), the rest level with each other.
ScoreRowPool ==
  { [j \in 1..Len(TAGS) |-> IF j = m THEN hi ELSE lo] :
      m \in {1, 4, Len(TAGS)},
      hi \in {Unit \div 5, Unit \div 2, 4 * (Unit \div 5)},
      lo \in {0, Unit \div 5} }

FoldInputs ==
  UNION { [kind : {"fold"}, score : [1..n -> ScoreRowPool]] : n \in 1..MaxFoldRows }

BinarizeFold ==
  /\ inp.kind = "fold"
  /\ ~Has("Y_pred")
  /\ Put("Y_pred", Binarized(inp.score))
  /\ PureFrame

\* ------------------------------------------------------- specifications

InitAll(stores, olds, tables, how) ==
  /\ files \in stores
  /\ legacy \in olds
  /\ sched = how
  /\ db \in tables
  /\ runs = 0
  /\ df = <<>>
  /\ Y = <<>>
  /\ startFiles = files
  /\ tres = "none"
  /\ entry = "none"
  /\ faults = 0
  /\ pc = [p \in Procs |-> "idle"]
  /\ cur = [p \in Procs |-> 0]
  /\ ret = [p \in Procs |-> "idle"]
  /\ lid = [p \in Procs |-> 0]
  /\ lmres = [p \in Procs |-> NoLoad]
  /\ args = [p \in Procs |-> NoArgs]
  /\ call = [p \in Procs |-> NewCall]
  /\ calls = 0
  /\ unavail = {}
  /\ signals = {}

InitRest(stores, tables, how) == InitAll(stores, {NoLegacy}, tables, how)

\* No service object has been constructed.
NoService ==
  /\ svc = [i \in 1..(MaxInst + 1) |-> NewService]
  /\ nInst = 0
  /\ singleton = 0
  /\ nLoads = 0

\* reload_prescription_service has run over a complete bundle at startup:
\* the singleton is an object whose one _load_model call read all of it.
StartupLoaded ==
  LET blob == [run |-> PriorRun, load |-> 1]
  IN /\ svc = [i \in 1..(MaxInst + 1) |->
                 IF i = 1
                 THEN [preprocess |-> blob, ovr_lr |-> blob, knn |-> blob,
                       meta |-> blob, model_loaded |-> TRUE]
                 ELSE NewService]
     /\ nInst = 1
     /\ singleton = 1
     /\ nLoads = 1

InitWith(stores, tables, how) ==
  /\ NoService
  /\ InitRest(stores, tables, how)

AmpleTable == <<AmpleRows - 1, 1, 1, 1, 1, 1>>

\* The score vectors line 116 can be handed: what the classifier gives for
\* a feature row, or the vector the ranking is applied to on its own.
Scores ==
  { Clipped(v) : v \in { clf[fit][x] : fit \in Fits, x \in FeatureRows }
                        \cup (IF inp.kind = "rank" THEN {inp.proba} ELSE {}) }

\* The installed numpy gives each score vector one of its ascending orders.
AnyNumpy ==
  argsort \in { f \in [Scores -> UNION { Argsorts(v) : v \in Scores }] :
                 \A v \in Scores : f[v] \in Argsorts(v) }

\* No function is applied on its own, and the classifier is the plain one.
NoPure == inp = NoInput /\ outp = NoOutput /\ clf = PlainClf /\ AnyNumpy

TrainStep ==
  \/ TrainStart
  \/ TrainLoadData
  \/ TrainClean
  \/ TrainTag
  \/ TrainFeatures
  \/ TrainFit
  \/ TrainCV
  \/ TrainSavePreprocess
  \/ TrainSaveOvr
  \/ TrainSaveKnn
  \/ TrainSaveMeta
  \/ TrainAbort
  \/ AfterTrain
  \/ ReloadConstruct
  \/ ReloadAssign

LoadStep(p) ==
  \/ LmExists(p)
  \/ LmPreprocess(p)
  \/ LmOvr(p)
  \/ LmKnn(p)
  \/ LmMeta(p)
  \/ LmDone(p)

HandlerStep(p) ==
  \/ Request(p)
  \/ GsCheck(p)
  \/ GsConstruct(p)
  \/ GsAssign(p)
  \/ GsReturn(p)
  \/ PpCheck(p)
  \/ PpRecheck(p)
  \/ PpBmi(p)
  \/ PpBins(p)
  \/ PpTransform(p)
  \/ PpTags(p)
  \/ PpProba(p)
  \/ PpKnn(p)
  \/ Respond(p)

Next ==
  \/ TrainStep
  \/ \E p \in Procs : LoadStep(p)
  \/ \E p \in Handlers : HandlerStep(p)

\* The server under load, with the training script run beside it: the
\* script's statements fall anywhere among the server's.
Init ==
  /\ InitWith({NoBundle, Bundle(PriorRun)}, {AmpleTable}, "procs")
  /\ NoPure

Spec == Init /\ [][Next]_vars

\* One operation at a time.  The models directory starts with any of its
\* files present.
SeqInit ==
  /\ InitWith([Files -> {Absent, PriorRun}], {AmpleTable}, "loop")
  /\ NoPure

\* Where requests do not overlap one of them stands for all.
Loader == 1

SeqNext ==
  \/ TrainStep
  \/ LoadStep(Trainer)
  \/ LoadStep(Loader)
  \/ HandlerStep(Loader)

SeqSpec == SeqInit /\ [][SeqNext]_vars

\* The training task alone, over every table within the bounds.
Tables ==
  { t \in [1..Len(RowPool) -> 0..Max(MaxUsable, MaxOther)] :
      t[1] <= MaxUsable /\ \A k \in 2..Len(RowPool) : t[k] <= MaxOther }

TrainInit ==
  /\ InitWith({NoBundle, Bundle(PriorRun)}, Tables, "loop")
  /\ NoPure

TrainNext ==
  \/ TrainStep
  \/ LoadStep(Trainer)

TrainSpec == TrainInit /\ [][TrainNext]_vars

\* A server that only serves: startup found both legacy files and the
\* bundle of the models directory, so it trained nothing and loaded the
\* service (lines 112, 125-135); requests arrive while the responses of
\* earlier ones are still to leave.
ServeInit ==
  /\ StartupLoaded
  /\ InitAll({Bundle(PriorRun)}, {LegacyNames}, {AmpleTable}, "serve")
  /\ inp = NoInput
  /\ outp = NoOutput
  /\ clf \in ServeClfs
  /\ AnyNumpy

ServeStep(p) ==
  \/ Request(p)
  \/ GsCheck(p)
  \/ GsReturn(p)
  \/ PpCheck(p)
  \/ PpBmi(p)
  \/ PpBins(p)
  \/ PpTransform(p)
  \/ PpTags(p)
  \/ PpProba(p)
  \/ PpKnn(p)
  \/ Respond(p)

ServeNext == \E p \in Handlers : ServeStep(p)

ServeSpec == ServeInit /\ [][ServeNext]_vars

\* train_model has run steps 1-5 over the table: df and Y are the frame and
\* the label matrix that steps 6-8 work on.
Prepared ==
  \E loaded \in {load_data_from_db(db)} :
    \E clean \in {SelectRows(loaded, [i \in 1..Len(loaded) |->
                                        Columns[loaded[i]].in_range])} :
      \E tagged \in {SelectRows(clean, [i \in 1..Len(clean) |->
                                          Columns[clean[i]].tags # {}])} :
        /\ df = SelectRows(tagged, [i \in 1..Len(tagged) |->
                                      Columns[tagged[i]].bmi_bucket # NaNBucket])
        /\ Y = SubSeq([i \in 1..Len(tagged) |->
                         to_multihot(Columns[tagged[i]].tags, TAGS)],
                      1, Len(df))

\* The server that startup has loaded, beside the training script run as
\* a process of its own, which has fitted its models and stands before
\* line 261.  The server runs one operation at a time on its event loop:
\* requests, whose responses may wait to leave, and
\* reload_prescription_service.
ReloadInit ==
  /\ StartupLoaded
  /\ files = Bundle(PriorRun)
  /\ legacy = LegacyNames
  /\ sched = "reload"
  /\ db = AmpleTable
  /\ runs = 1
  /\ Prepared
  /\ startFiles = files
  /\ tres = "running"
  /\ entry = "script"
  /\ faults = 0
  /\ pc = [p \in Procs |-> IF p = Trainer THEN "t_save_pre" ELSE "idle"]
  /\ cur = [p \in Procs |-> 0]
  /\ ret = [p \in Procs |-> "idle"]
  /\ lid = [p \in Procs |-> 0]
  /\ lmres = [p \in Procs |-> NoLoad]
  /\ args = [p \in Procs |-> NoArgs]
  /\ call = [p \in Procs |-> NewCall]
  /\ calls = 0
  /\ unavail = {}
  /\ signals = {}
  /\ inp = NoInput
  /\ outp = NoOutput
  /\ clf \in ReloadClfs
  /\ AnyNumpy

ReloadStep(p) ==
  \/ Request(p)
  \/ GsCheck(p)
  \/ GsReturn(p)
  \/ PpCheck(p)
  \/ PpRecheck(p)
  \/ PpBmi(p)
  \/ PpBins(p)
  \/ PpTransform(p)
  \/ PpTags(p)
  \/ PpProba(p)
  \/ PpKnn(p)
  \/ Respond(p)

ReloadNext ==
  \/ TrainSavePreprocess
  \/ TrainSaveOvr
  \/ TrainSaveKnn
  \/ TrainSaveMeta
  \/ AfterTrain
  \/ \E p \in Handlers : DirectReload(p)
  \/ \E p \in Handlers : DirectAssign(p)
  \/ \E p \in Handlers : LoadStep(p)
  \/ \E p \in Handlers : ReloadStep(p)

ReloadSpec == ReloadInit /\ [][ReloadNext]_vars

\* The bucket of one (height, weight) pair, as each of the three places
\* that compute one does it.
AtRest == InitWith({NoBundle}, {AmpleTable}, "loop")

BucketInit == AtRest /\ inp \in BucketInputs /\ outp = NoOutput /\ clf = PlainClf
  /\ AnyNumpy

BucketNext ==
  \/ TrainBucket
  \/ PredictBucket
  \/ Top3Bucket

BucketSpec == BucketInit /\ [][BucketNext]_vars

\* The ranking of one probability vector, for each top_k the route lets in.
RankInit == AtRest /\ inp \in RankInputs /\ outp = NoOutput /\ clf = PlainClf
  /\ AnyNumpy

RankNext == \E top_k \in TOP_K_MIN..TOP_K_MAX : RankApply(top_k)

RankSpec == RankInit /\ [][RankNext]_vars

\* The tag extractor on one note, and on the note with a keyword put in.
NoteInit == AtRest /\ inp \in NoteInputs /\ outp = NoOutput /\ clf = PlainClf
  /\ AnyNumpy

NoteNext ==
  \/ ExtractPlain
  \/ ExtractWithKeyword

NoteSpec == NoteInit /\ [][NoteNext]_vars

\* The binarisation of one validation fold's scores.
FoldInit == AtRest /\ inp \in FoldInputs /\ outp = NoOutput /\ clf = PlainClf
  /\ AnyNumpy

FoldNext == BinarizeFold

FoldSpec == FoldInit /\ [][FoldNext]_vars

\* The server starts: startup_event decides between training and loading,
\* over every models directory it may find.
StartStores ==
  {NoBundle, Bundle(PriorRun), [Bundle(PriorRun) EXCEPT !["knn"] = Absent]}

StartInit ==
  /\ NoService
  /\ InitAll(StartStores, SUBSET LegacyNames, {AmpleTable}, "loop")
  /\ NoPure

StartNext ==
  \/ StartupCheck
  \/ TrainLoadData
  \/ TrainClean
  \/ TrainTag
  \/ TrainFeatures
  \/ TrainFit
  \/ TrainCV
  \/ TrainSavePreprocess
  \/ TrainSaveOvr
  \/ TrainSaveKnn
  \/ TrainSaveMeta
  \/ TrainAbort
  \/ AfterTrain
  \/ ReloadConstruct
  \/ ReloadAssign
  \/ StartupGet
  \/ StartupAssign
  \/ StartupFlag
  \/ StartupDone
  \/ LoadStep(Trainer)

StartSpec == StartInit /\ [][StartNext]_vars

\* One operation at a time on the service objects: construction, predict
\* calls with their lazy load, and _load_model calls on an object already
\* loaded, over a models directory with any of its files present.
InstNext ==
  \/ \E p \in Procs : LoadStep(p)
  \/ \E p \in Handlers : HandlerStep(p)
  \/ DirectLoad(Trainer)
  \/ DirectDone(Trainer)

InstInit ==
  /\ InitWith([Files -> {Absent, PriorRun}], {AmpleTable}, "loop")
  /\ NoPure

InstSpec == InstInit /\ [][InstNext]_vars

\* The training script runs as a process of its own beside the server, over
\* a models directory that holds nothing yet.
FirstInit ==
  /\ InitWith({NoBundle}, {AmpleTable}, "procs")
  /\ NoPure

\* One request at a time is enough to run a load beside the dumps.
FirstSpec == FirstInit /\ [][SeqNext]_vars

\* ----------------------------------------------------------- properties

\* A call of a serving process has ended and its response is about to leave.
Ended(p) == pc[p] = "respond"

\* The models directory lacks at least one of the four files.
Partial == \E f \in Files : files[f] = Absent

\* A record of the table that gets through load_data_from_db and steps 3-5
\* of train_model.
UsableRow(k) ==
  /\ RowPool[k].height_cm # 0
  /\ RowPool[k].weight_kg # 0
  /\ Row(k).pres_note # <<>>
  /\ Columns[k].in_range
  /\ Columns[k].tags # {}
  /\ Columns[k].bmi_bucket # NaNBucket

RECURSIVE UsableUpTo(_, _)
UsableUpTo(counts, k) ==
  IF k = 0 THEN 0
  ELSE UsableUpTo(counts, k - 1) + (IF UsableRow(k) THEN counts[k] ELSE 0)

UsableCount == UsableUpTo(db, Len(RowPool))

\* C1: every prediction that returns from a predict_prescription call during
\* which a _load_model ran in place on the shared instance has read its bins
\* and tags (meta), preprocess, ovr_lr and knn from one load of one bundle.
C1_PredictionFromOneLoad ==
  \A p \in Handlers :
    (/\ Ended(p)
     /\ call[p].out = Returned
     /\ call[p].inst = singleton
     /\ call[p].lazy > 0) =>
      \E b \in {call[p].used.bins} :
        /\ b # None
        /\ call[p].used.preprocess = b
        /\ call[p].used.tags = b
        /\ call[p].used.ovr_lr = b
        /\ call[p].used.knn = b

\* C2: whatever the interleaving of the four dumps of train_model with the
\* reads of a _load_model call, a load that succeeds has read four files
\* written by one training run.
C2_LoadReadsOneRun ==
  \A p \in Procs :
    lmres[p].res = "loaded" => Cardinality(lmres[p].runs) = 1

\* C3: when train_model has failed or has been cut short, the models
\* directory holds the complete bundle it held before the run (or nothing,
\* where there was none) or the complete bundle of this run.
C3_AbortLeavesWholeBundle ==
  tres \in {"aborted", "raised"} =>
    \/ files = startFiles
    \/ files = Bundle(runs)

\* C4: with any one, two, three or none of the four files in the models
\* directory, _load_model returns with model_loaded False, and the
\* predict_prescription call that follows raises the model-not-loaded error
\* without having read any attribute.
C4_PartialBundleFailsClosed ==
  Partial =>
    \A p \in Handlers :
      /\ (pc[p] \in {"gs_assign", "pp_recheck"} => ~svc[cur[p]].model_loaded)
      /\ Ended(p) => /\ call[p].out = ModelNotLoaded
                     /\ call[p].used = NoneUsed
                     /\ ~svc[call[p].inst].model_loaded

C4_Witness ==
  \E p \in Handlers :
    /\ Ended(p)
    /\ Partial
    /\ files # NoBundle
    /\ call[p].lazy = 1
    /\ call[p].out = ModelNotLoaded

\* The query the specification calls valid: height_cm > 0 and weight_kg > 0.
\* No statement a request passes through tests it.
IsValid(a) == a.height_cm > 0 /\ a.weight_kg > 0

\* C5: a predict_prescription call with height_cm <= 0 or weight_kg <= 0
\* ends in an error, and it has neither called _load_model, nor reached the
\* BMI computation, nor read any attribute of the model.
C5_InvalidInputNeverReachesModel ==
  \A p \in Handlers :
    (Ended(p) /\ ~IsValid(args[p])) =>
      /\ call[p].out.kind = "raise"
      /\ call[p].lazy = 0
      /\ ~call[p].feat
      /\ call[p].used = NoneUsed

\* C6: the error raised when no model is loaded after the lazy load and the
\* error raised for an invalid height or weight differ in type.
C6_UnavailableDistinctFromInvalid ==
  \A a \in signals : \A b \in signals :
    (a.out.msg = "not_loaded" /\ ~IsValid(b) /\ b.out.msg # "not_loaded") =>
      a.out.type # b.out.type

\* C7: a predict_prescription call that finds model_loaded False calls
\* _load_model exactly once; if model_loaded is still False after it, the
\* call raises the model-not-loaded error, having computed no feature and
\* read no attribute of the model.
C7_OneLazyLoadThenUnavailable ==
  \A p \in Handlers :
    /\ call[p].seen = "unloaded" => call[p].lazy = 1
    /\ call[p].seen = "loaded" => call[p].lazy = 0
    /\ call[p].after = "unloaded" =>
         /\ Ended(p)
         /\ call[p].out = ModelNotLoaded
         /\ ~call[p].feat
         /\ call[p].used = NoneUsed

C7_Witness ==
  \E p \in Handlers :
    /\ Ended(p)
    /\ call[p].seen = "unloaded"
    /\ call[p].after = "unloaded"
    /\ call[p].lazy = 1
    /\ call[p].out = ModelNotLoaded

\* C8: on a service object that has failed a call for want of a model, the
\* next predict_prescription call made once the four files are in place (and
\* readable) loads them in its lazy load, leaves model_loaded True and
\* returns a result.
C8_RecoversWithoutRestart ==
  \A p \in Handlers :
    (/\ Ended(p)
     /\ call[p].retry
     /\ call[p].seen = "unloaded"
     /\ ~Partial
     /\ ~call[p].fault
     /\ IsValid(args[p])) =>
      /\ call[p].out = Returned
      /\ call[p].lazy = 1
      /\ svc[call[p].inst].model_loaded
      /\ call[p].used.knn.load = lid[p]

C8_Witness ==
  \E p \in Handlers :
    /\ Ended(p)
    /\ call[p].retry
    /\ call[p].seen = "unloaded"
    /\ call[p].inst \in unavail
    /\ call[p].out = Returned
    /\ svc[call[p].inst].model_loaded

\* C9: when the table holds no usable record (no record loaded, every one
\* out of bounds, or none with a tag), train_model returns without raising
\* and the four files are what they were when it was called.
C9_NoUsableRowsIsNoOp ==
  (UsableCount = 0 /\ tres \notin {"none", "running", "aborted"}) =>
    /\ tres = "returned"
    /\ files = startFiles

C9_Witness ==
  /\ UsableCount = 0
  /\ \E k \in 1..Len(RowPool) : db[k] > 0
  /\ tres = "returned"
  /\ startFiles = Bundle(PriorRun)
  /\ files = Bundle(PriorRun)

\* C10: when at least one usable record but fewer than cross-validation
\* with 7 neighbours needs gets through the filters, train_model returns
\* without raising and writes no file.
C10_TooFewRowsIsNoOp ==
  (/\ UsableCount >= 1
   /\ UsableCount < AmpleRows
   /\ tres \notin {"none", "running", "aborted"}) =>
    /\ tres = "returned"
    /\ files = startFiles

\* The rankings computed on their own, each with its top_k and conf_thr.
Rankings == { x[2] : x \in { y \in outp : y[1] = "rank" } }

\* The place in the tag vocabulary of the tag a candidate names.
TagPlace(note) ==
  CHOOSE i \in 1..Len(TAGS) : tag_to_korean(TAGS[i]) = note

Places(result) == { TagPlace(result[i].pres_note) : i \in 1..Len(result) }

\* C11: for every probability vector and every top_k from 1 to 10, the list
\* predict_prescription returns has at most top_k entries and its prob
\* values never increase from one entry to the next.
C11_RankedWithinTopK ==
  \A r \in Rankings :
    /\ Len(r.result) <= r.top_k
    /\ \A i \in 1..(Len(r.result) - 1) :
         r.result[i].prob >= r.result[i + 1].prob

C11_Witness ==
  \E r \in Rankings :
    /\ r.top_k = 3
    /\ Len(r.result) = 3
    /\ r.result[1].prob > r.result[3].prob

\* C12: of two tags with equal scores the one earlier in the tag list is
\* ranked first, and where the tie straddles the cut at top_k the earlier
\* one is the one returned.
C12_TiesInVocabularyOrder ==
  \A r \in Rankings :
    LET score == Clipped(inp.proba)
    IN /\ \A i \in 1..Len(r.result) : \A j \in (i + 1)..Len(r.result) :
            r.result[i].prob = r.result[j].prob =>
              TagPlace(r.result[i].pres_note) < TagPlace(r.result[j].pres_note)
       /\ \A t \in (1..Len(TAGS)) \ Places(r.result) :
            \A i \in 1..Len(r.result) :
              r.result[i].prob = score[t] =>
                TagPlace(r.result[i].pres_note) < t

\* C13: every entry predict_prescription returns has a prob at or above
\* the conf_thr it was called with.
C13_NothingBelowThreshold ==
  \A r \in Rankings :
    \A i \in 1..Len(r.result) : r.result[i].prob >= r.conf_thr

\* A call has returned its list and the response has not left yet.
Answered(p) == Ended(p) /\ call[p].out = Returned

\* The statements of predict_prescription a process may be at.
PredictPcs ==
  {"pp_check", "pp_bmi", "pp_bins", "pp_transform", "pp_tags", "pp_proba",
   "pp_knn"}

\* Two calls have read attributes written by the same training runs.
SameArtifact(p, q) ==
  \A slot \in DOMAIN NoneUsed : call[p].used[slot].run = call[q].used[slot].run

Alone(p) ==
  Candidates(predict_proba(svc[cur[p]].preprocess.run, svc[cur[p]].ovr_lr.run,
                           args[p]),
             TAGS, args[p].top_k, args[p].conf_thr)

\* C15: a step of predict_prescription on a loaded service changes none of
\* preprocess, ovr_lr, knn, meta, model_loaded or the singleton, and the
\* list a call returns amid other calls is the one it returns alone.
C15_PredictReadsOnly ==
  [][\A p \in Handlers :
       (/\ pc[p] \in PredictPcs
        /\ pc'[p] # pc[p]
        /\ svc[cur[p]].model_loaded) =>
         /\ svc' = svc
         /\ singleton' = singleton
         /\ (pc'[p] = "respond" /\ call'[p].out = Returned) =>
              call'[p].result = Alone(p)]_vars

C15_Witness ==
  \E p \in Handlers : \E q \in Handlers \ {p} :
    /\ Answered(p)
    /\ pc[q] \in PredictPcs \ {"pp_check"}
    /\ call[p].inst = cur[q]
    /\ svc[cur[q]].model_loaded
    /\ call[p].result = Alone(p)
    /\ args[p] # args[q]

\* The BMI of the pair whose bucket is computed on its own.
InputBmi == compute_bmi(inp.height_cm, inp.weight_kg)

\* The bucket a computation gave, for a computation that has run.
Got(name) == CHOOSE v \in { x[2] : x \in { y \in outp : y[1] = name } } : TRUE

\* The index i with boundaries[i] <= bmi < boundaries[i+1], counted from 0.
HalfOpenBucket(b, bins) ==
  CHOOSE i \in 0..(Len(bins) - 2) :
    FloatCmp(b, bins[i + 1], 2) >= 0 /\ FloatCmp(b, bins[i + 2], 2) < 0

\* C16: for every (height, weight) whose BMI lies from 0 to 100, the
\* boundaries included, the bmi_bucket train_model computes for the row
\* equals the one predict_prescription computes for the pair.
C16_SameBucketTrainAndPredict ==
  (/\ inp.kind = "bucket"
   /\ Between(InputBmi, 0, 100)
   /\ Has("train")
   /\ Has("predict")) =>
    Got("train") = Got("predict")

C16_Witness ==
  /\ inp.kind = "bucket"
  /\ FloatCmp(InputBmi, 37, 2) = 0
  /\ Has("train")
  /\ Has("predict")
  /\ Got("train") = 1
  /\ Got("predict") = 1

\* C17: for every bmi in [0, 100) both the training path and
\* predict_prescription give the index i with boundaries[i] <= bmi <
\* boundaries[i+1]; a bmi equal to an interior boundary goes to the bucket
\* that begins there.
C17_HalfOpenBuckets ==
  (/\ inp.kind = "bucket"
   /\ Between(InputBmi, 0, 100)
   /\ FloatCmp(InputBmi, 100, 1) # 0) =>
    /\ Has("train") => Got("train") = HalfOpenBucket(InputBmi, bmi_bins)
    /\ Has("predict") => Got("predict") = HalfOpenBucket(InputBmi, bmi_bins)

\* C18: for a bmi below 0 or above 100 the bucket predict_prescription
\* computes is the nearest edge bucket, 0 or 6, never NaN.
C18_ClampedToEdgeBucket ==
  (inp.kind = "bucket" /\ Has("predict")) =>
    LET bmi == predict_bmi(inp.height_cm, inp.weight_kg)
    IN /\ FloatCmp(bmi, 0, 1) < 0 => Got("predict") = 0
       /\ FloatCmp(bmi, 100, 1) > 0 => Got("predict") = Len(bmi_bins) - 2

\* A returned candidate that tells the caller which scoring produced it.
Flagged(result) ==
  \E r \in 1..Len(result) : DOMAIN result[r] # {"pres_note", "prob"}

\* C19: whenever predict_prescription scores from the logistic probabilities
\* alone because the neighbours' label matrix is not available, the call
\* reports the degraded mode in the log or in its result.
C19_DegradedModeObservable ==
  \A p \in Handlers :
    (Answered(p) /\ call[p].scored = "logistic_only") =>
      \/ "degraded_mode" \in call[p].log
      \/ Flagged(call[p].result)

\* The positions of train_model after step 4, while the frame is alive.
PreparedPcs ==
  {"t_feat", "t_fit", "t_cv", "t_save_pre", "t_save_ovr", "t_save_knn",
   "t_save_meta"}

\* C20: after the preparation steps of train_model every surviving row has
\* at least one tag, and so every row of the label matrix has a 1, whatever
\* records the table holds.
C20_SurvivingRowsHaveTags ==
  pc[Trainer] \in PreparedPcs =>
    /\ \A k \in 1..Len(RowPool) :
         (\E i \in 1..Len(df) : df[i] = k) => Columns[k].tags # {}
    /\ \A i \in 1..Len(Y) : \E j \in 1..Len(TAGS) : Y[i][j] = 1

C20_Witness ==
  /\ pc[Trainer] = "t_fit"
  /\ \E k \in 1..Len(RowPool) :
       /\ db[k] > 0
       /\ Columns[k].in_range
       /\ Row(k).pres_note # <<>>
       /\ Columns[k].tags = {}
  /\ Len(df) > 0
  /\ Len(Y) = Len(df)

\* C22: for every (height, weight) pair that keeps its training row, BMI
\* values equal to a boundary included, the bmi_bucket train_model computes
\* (pd.cut) equals the bucket recommend_top3 computes (np.digitize over the
\* interior boundaries).
C22_SameBucketTrainAndTop3 ==
  (/\ inp.kind = "bucket"
   /\ Has("train")
   /\ Has("top3")
   /\ Got("train") # NaNBucket) =>
    Got("train") = Got("top3")

\* C21 as stated: for every note n and vocabulary keyword k, the tags of n
\* with an occurrence of k appended or inserted at a word boundary include
\* every tag of n.
C21_KeywordAtAnyBoundaryKeepsTags ==
  (inp.kind = "note" /\ Has("plain") /\ Has("with_keyword")) =>
    Got("plain") \subseteq Got("with_keyword")

\* C21 amended: for every note n and vocabulary keyword k, the tags of n
\* with an occurrence of k put before its start or after its end include
\* every tag of n.
C21_KeywordAtEndsKeepsTags ==
  (/\ inp.kind = "note"
   /\ inp.at \in {0, Len(inp.note)}
   /\ Has("plain")
   /\ Has("with_keyword")) =>
    Got("plain") \subseteq Got("with_keyword")

C21_Witness ==
  /\ inp.kind = "note"
  /\ inp.at = 0
  /\ inp.sep = <<>>
  /\ Has("plain")
  /\ Has("with_keyword")
  /\ Got("plain") = {"strength_lower"}
  /\ Got("with_keyword") = {"strength_lower", "swimming"}

\* C28: for every keyword kw listed for a tag in KEYWORDS, a raw note that
\* holds kw verbatim gives, through normalize_text and extract_tags, a tag
\* set with kw's tag in it.
C28_EveryKeywordMatches ==
  (inp.kind = "note" /\ Has("with_keyword")) =>
    KEYWORDS[inp.kw[1]].tag \in Got("with_keyword")

\* C23: in every cross-validation fold, every row of the binarised
\* prediction matrix has a tag set to 1, and a row whose scores are all
\* under 0.5 has exactly one, at a tag holding the row's top score.
C23_NoEmptyPredictionRow ==
  (inp.kind = "fold" /\ Has("Y_pred")) =>
    \A i \in 1..Len(inp.score) :
      LET row == inp.score[i]
          pred == Got("Y_pred")[i]
      IN /\ \E j \in 1..Len(pred) : pred[j] = 1
         /\ (\A j \in 1..Len(row) : row[j] < binarize_at) =>
              \E j \in 1..Len(row) :
                /\ \A k \in 1..Len(row) : row[k] <= row[j]
                /\ \A k \in 1..Len(pred) : pred[k] = (IF k = j THEN 1 ELSE 0)

C23_Witness ==
  /\ inp.kind = "fold"
  /\ Has("Y_pred")
  /\ Len(inp.score) = 2
  /\ \A j \in 1..Len(TAGS) : inp.score[1][j] < binarize_at
  /\ \E j \in 1..Len(TAGS) : inp.score[2][j] >= binarize_at
  /\ np_argmax(inp.score[1]) = 4
  /\ Got("Y_pred")[1][4] = 1
  /\ RowSum(Got("Y_pred")[1]) = 1

\* C24: at startup training runs only when the model files are absent; when
\* the store already holds the complete four-file bundle of an earlier
\* train_model run, startup_event trains nothing.
C24_CompleteBundleSkipsTraining ==
  (\A f \in Files : startFiles[f] = PriorRun) => runs = 0

\* The positions inside _load_model.
LoadPcs == {"lm_exists", "lm_pre", "lm_ovr", "lm_knn", "lm_meta", "lm_done"}

\* No _load_model call is running on object i.
Settled(i) == \A p \in Procs : ~(pc[p] \in LoadPcs /\ cur[p] = i)

\* C25: with operations run one after another on a PrescriptionService
\* object, whatever the store holds and whichever read fails, an object
\* whose model_loaded is True has preprocess, ovr_lr, knn and meta all set,
\* all read by one and the same _load_model call.
C25_LoadedMeansOneWholeLoad ==
  \A i \in 1..nInst :
    (svc[i].model_loaded /\ Settled(i)) =>
      /\ \A f \in Files : svc[i][f] # None
      /\ \A f \in Files : svc[i][f].load = svc[i]["preprocess"].load

C25_Witness ==
  \E i \in 1..nInst :
    /\ svc[i].model_loaded
    /\ Settled(i)
    /\ faults > 0
    /\ \A f \in Files : svc[i][f].load = 3
    /\ \A f \in Files : svc[i][f].run = PriorRun

\* get_prescription_service would return a loaded object.
ServingLoaded == singleton # 0 /\ svc[singleton].model_loaded

FeaturedPcs ==
  {"t_fit", "t_cv", "t_save_pre", "t_save_ovr", "t_save_knn", "t_save_meta"}

\* C27: after the outlier mask, the zero-tag drop, the dropna on bmi_bucket
\* and Y = Y[:len(df)], the label matrix has as many rows as the frame, and
\* row i of it marks, in vocabulary order, exactly the tags of row i of the
\* frame, whatever records the table holds.
C27_LabelsAlignedWithRows ==
  pc[Trainer] \in FeaturedPcs =>
    /\ Len(Y) = Len(df)
    /\ \A k \in 1..Len(RowPool) :
         LET tags == Columns[k].tags
             marks == [j \in 1..Len(TAGS) |-> IF TAGS[j] \in tags THEN 1 ELSE 0]
         IN \A i \in 1..Len(df) : df[i] = k => Y[i] = marks

C27_Witness ==
  /\ pc[Trainer] = "t_cv"
  /\ \A k \in 1..Len(RowPool) : db[k] > 0
  /\ Len(df) = AmpleRows
  /\ Len(Y) = AmpleRows
  /\ df[AmpleRows - 1] = 1
  /\ df[AmpleRows] = 6
  /\ Y[AmpleRows - 1] = to_multihot({"walking", "flexibility"}, TAGS)
  /\ Y[AmpleRows] = to_multihot({"swimming"}, TAGS)

\* The positions of train_model before its persistence step.
BeforeSavePcs == {"t_load", "t_clean", "t_tag", "t_feat", "t_fit", "t_cv"}

\* C29: while train_model is before its persistence step, and after it has
\* returned early or raised there (data load, filtering, tag extraction,
\* fitting, cross-validation), the four artifact files are what they were
\* when it was called: every write comes after the cross-validation.
C29_NoWriteBeforePersistence ==
  (pc[Trainer] \in BeforeSavePcs \/ tres \in {"returned", "raised"}) =>
    files = startFiles

C29_Witness ==
  /\ tres = "raised"
  /\ pc[Trainer] = "t_after"
  /\ Len(df) > 0
  /\ Len(df) < AmpleRows
  /\ startFiles = Bundle(PriorRun)
  /\ files = Bundle(PriorRun)

\* C30: when the store holds no earlier bundle, however a _load_model call
\* interleaves with the first train_model's persistence, no object ends with
\* model_loaded True unless that run has written all four files to the end.
C30_NoLoadOfUnfinishedBundle ==
  (runs = 1 /\ startFiles = NoBundle) =>
    \A i \in 1..nInst :
      svc[i].model_loaded =>
        /\ files = Bundle(runs)
        /\ \A f \in Files : svc[i][f].run = runs

C30_Witness ==
  /\ runs = 1
  /\ startFiles = NoBundle
  /\ entry = "script"
  /\ \E i \in 1..nInst : svc[i].model_loaded
  /\ lmres[Loader].res = "loaded"
  /\ call[Loader].fault

====
